---------------------------- MODULE Spec2Model ----------------------------
(***************************************************************************)
(* Model of js-xml (lib/js-xml.ts): parse, stringify, normalizeNamespaces, *)
(* revive, and the simplify reviver (lib/revivers.js).                     *)
(*                                                                         *)
(* Text is a sequence of UTF-16 code units (naturals), positions are the   *)
(* 0-based positions of the source.  A JS value is a record tagged by t:   *)
(*   [t |-> "str", s |-> text]          a string                           *)
(*   [t |-> "arr", a |-> <<values>>]    an array                           *)
(*   [t |-> "obj", e |-> <<[k, v]>>]    an object, own keys in insertion   *)
(*                                      order (the order of Object.keys    *)
(*                                      and for..in)                       *)
(*   [t |-> "num", n |-> n], [t |-> "null"], [t |-> "undef"], and          *)
(*   [t |-> "ref"] for the builder's $parent pointer.                      *)
(* Objects are plain own-property maps: names are drawn from sets that     *)
(* hold no member name of Object.prototype.                                *)
(***************************************************************************)
EXTENDS Integers, Sequences, FiniteSets, TLC

VARIABLES mode, src, str, pos, bld, pc, err, tree, first, out, norm,
          reviver, calls, raw, opts, ev

vars == <<mode, src, str, pos, bld, pc, err, tree, first, out, norm,
          reviver, calls, raw, opts, ev>>

(***************************************************************************)
(* Character codes and character classes (js-xml.ts 36-70).                *)
(***************************************************************************)
LF == 10
LT == 60
GT == 62
EXCLAM == 33
QMARK == 63
SLASH == 47
OBRA == 91
EQ == 61
DASH == 45
AMP == 38
SEMI == 59
HASH == 35
DQUOTE == 34
SQUOTE == 39
COLON == 58
SP == 32
NaN == -1

begWord(ch) == (ch >= 97 /\ ch <= 122) \/ (ch >= 65 /\ ch <= 90) \/ ch = 58 \/ ch = 95

inWord(ch) == begWord(ch) \/ (ch >= 48 /\ ch <= 57) \/ ch = 45 \/ ch = 46

space(ch) == ch \in {32, 9, 13, 10}

\* entitiesByChar: "&" amp, "<" lt, ">" gt, '"' quot, "'" apos
entitiesByChar(ch) ==
    CASE ch = 38 -> <<97, 109, 112>>
      [] ch = 60 -> <<108, 116>>
      [] ch = 62 -> <<103, 116>>
      [] ch = 34 -> <<113, 117, 111, 116>>
      [] ch = 39 -> <<97, 112, 111, 115>>
      [] OTHER -> <<>>

\* entitiesByName: the inverse table; NaN when the name is not in it
entitiesByName(ent) ==
    IF \E ch \in {38, 60, 62, 34, 39} : entitiesByChar(ch) = ent
    THEN CHOOSE ch \in {38, 60, 62, 34, 39} : entitiesByChar(ch) = ent
    ELSE NaN

(***************************************************************************)
(* JS strings.                                                             *)
(***************************************************************************)
Min(S) == CHOOSE m \in S : \A n \in S : m <= n

Clamp(i, n) == IF i < 0 THEN 0 ELSE IF i > n THEN n ELSE i

\* String.prototype.charCodeAt: NaN outside the string
CharCodeAt(s, i) == IF i >= 0 /\ i < Len(s) THEN s[i + 1] ELSE NaN

\* String.prototype.substring(a, b)
Substring(s, a, b) ==
    LET x == Clamp(a, Len(s))
        y == Clamp(b, Len(s))
    IN  IF x <= y THEN SubSeq(s, x + 1, y) ELSE SubSeq(s, y + 1, x)

\* String.prototype.indexOf(pat, from): -1 when pat does not occur
IndexOf(s, pat, from) ==
    LET f == Clamp(from, Len(s))
        C == {i \in f..(Len(s) - Len(pat)) : SubSeq(s, i + 1, i + Len(pat)) = pat}
    IN  IF C = {} THEN -1 ELSE Min(C)

RECURSIVE Flatten(_)
Flatten(ss) == IF ss = <<>> THEN <<>> ELSE Head(ss) \o Flatten(Tail(ss))

(***************************************************************************)
(* JS values and objects.                                                  *)
(***************************************************************************)
Str(s) == [t |-> "str", s |-> s]
Arr(a) == [t |-> "arr", a |-> a]
Obj(e) == [t |-> "obj", e |-> e]
Num(n) == [t |-> "num", n |-> n]
Null == [t |-> "null"]
Undef == [t |-> "undef"]
Ref == [t |-> "ref"]
EmptyObj == Obj(<<>>)

IsStr(v) == v.t = "str"
IsArr(v) == v.t = "arr"
IsObj(v) == v.t = "obj"

\* v != null
NotNullish(v) == v.t \notin {"null", "undef"}

\* ToBoolean(v)
Truthy(v) ==
    CASE v.t = "str" -> v.s # <<>>
      [] v.t = "num" -> v.n # 0
      [] v.t \in {"null", "undef"} -> FALSE
      [] OTHER -> TRUE

Keys(o) == [i \in 1..Len(o.e) |-> o.e[i].k]

Has(o, k) == \E i \in 1..Len(o.e) : o.e[i].k = k

\* the objects are made by object literals, so a name they do not have is
\* looked up in Object.prototype, where toString, valueOf and constructor are
\* functions
Fn == [t |-> "fn"]
n_toString == <<116, 111, 83, 116, 114, 105, 110, 103>>
n_valueOf == <<118, 97, 108, 117, 101, 79, 102>>
n_constructor == <<99, 111, 110, 115, 116, 114, 117, 99, 116, 111, 114>>
ObjectPrototype == {n_toString, n_valueOf, n_constructor}

\* o[k]
Get(o, k) ==
    IF Has(o, k) THEN o.e[CHOOSE i \in 1..Len(o.e) : o.e[i].k = k].v
    ELSE IF k \in ObjectPrototype THEN Fn
    ELSE Undef

\* o[k] = v: a new key goes last
Put(o, k, v) ==
    IF Has(o, k)
    THEN Obj([i \in 1..Len(o.e) |-> IF o.e[i].k = k THEN [k |-> k, v |-> v] ELSE o.e[i]])
    ELSE Obj(Append(o.e, [k |-> k, v |-> v]))

\* delete o[k]
Del(o, k) == Obj(SelectSeq(o.e, LAMBDA x : x.k # k))

K_attrs == <<36>>
K_value == <<36, 118, 97, 108, 117, 101>>
K_cdata == <<36, 99, 100, 97, 116, 97>>
K_tag == <<36, 116, 97, 103>>
K_parent == <<36, 112, 97, 114, 101, 110, 116>>
K_childCount == <<36, 99, 104, 105, 108, 100, 67, 111, 117, 110, 116>>
K_index == <<36, 105, 110, 100, 101, 120>>


(***************************************************************************)
(* The tree builder (js-xml.ts 80-143).  The builder's state is the chain  *)
(* of open elements, root first, current element (elt) last; bld.st[i]'s   *)
(* $parent is bld.st[i-1].  An operation yields the new chain, or the      *)
(* chain unchanged and the message of the error it throws.                 *)
(***************************************************************************)
Ok(st) == [st |-> st, err |-> "none"]

Fail(st, msg) == [st |-> st, err |-> msg]

\* const root = { $childCount: 0 }; let elt = root
BuilderInit == <<Obj(<<[k |-> K_childCount, v |-> Num(0)]>>)>>

NewChild(tag) ==
    Obj(<<[k |-> K_tag, v |-> Str(tag)],
          [k |-> K_parent, v |-> Ref],
          [k |-> K_childCount, v |-> Num(0)]>>)

\* mutant: a repeated tag overwrites the entry instead of growing a list
push_overwriting(st, tag) ==
    LET n == Len(st)
        elt == st[n]
    IN  IF NotNullish(Get(elt, K_cdata)) THEN Fail(st, "cannot mix CDATA and children")
        ELSE IF NotNullish(Get(elt, K_value)) THEN Fail(st, "cannot mix value and children")
        ELSE Ok(Append([st EXCEPT ![n] =
                           Put(Put(elt, K_childCount, Num(Get(elt, K_childCount).n + 1)),
                               tag, NewChild(tag))],
                       NewChild(tag)))

push(st, tag) ==
    LET n == Len(st)
        elt == st[n]
    IN  IF NotNullish(Get(elt, K_cdata)) THEN Fail(st, "cannot mix CDATA and children")
        ELSE IF NotNullish(Get(elt, K_value)) THEN Fail(st, "cannot mix value and children")
        ELSE LET e1 == Put(elt, K_childCount, Num(Get(elt, K_childCount).n + 1))
                 old == Get(e1, tag)
                 fresh == ~NotNullish(old)
                 lst == IF IsArr(old) THEN old.a ELSE <<old>>
                 child == IF fresh THEN NewChild(tag)
                          ELSE Put(NewChild(tag), K_index, Num(Len(lst)))
                 e2 == IF fresh THEN Put(e1, tag, child)
                       ELSE Put(e1, tag, Arr(Append(lst, child)))
             IN  Ok(Append([st EXCEPT ![n] = e2], child))

\* mutant: the element collapses to its $value whether or not it has attributes
Closed_ignoringAttributes(elt) ==
    IF Get(elt, K_value) # Undef THEN Get(elt, K_value)
    ELSE Del(Del(Del(elt, K_tag), K_childCount), K_index)

\* mutant: the position in the list stays on the element
Closed_keepingIndex(elt) ==
    IF Get(elt, K_value) # Undef /\ ~Truthy(Get(elt, K_attrs))
    THEN Get(elt, K_value)
    ELSE Del(Del(elt, K_tag), K_childCount)

\* the value that replaces the closed element elt in its parent: its $value
\* when it has one and no attributes, else elt without its bookkeeping
Closed(elt) ==
    IF Get(elt, K_value) # Undef /\ ~Truthy(Get(elt, K_attrs))
    THEN Get(elt, K_value)
    ELSE Del(Del(Del(elt, K_tag), K_childCount), K_index)

\* mutant: a value is set whatever the element holds
value_unguarded(st, val) == Ok([st EXCEPT ![Len(st)] = Put(st[Len(st)], K_value, Str(val))])

\* mutant: the name of the closing tag is not compared
pop_unchecked(st, tag) ==
    LET n == Len(st)
        elt == st[n]
    IN  IF ~Truthy(Get(elt, K_parent)) THEN Fail(st, "too many closing tags")
        ELSE LET parent == st[n - 1]
                 e1 == Del(elt, K_parent)
                 tg == Get(e1, K_tag).s
                 ix == Get(e1, K_index)
                 p2 == IF ix = Undef THEN Put(parent, tg, Closed(e1))
                       ELSE Put(parent, tg,
                                Arr([Get(parent, tg).a EXCEPT ![ix.n + 1] = Closed(e1)]))
             IN  Ok(Append(SubSeq(st, 1, n - 2), p2))

\* tag: Str(name), or Undef when the closing tag has no name
pop(st, tag) ==
    LET n == Len(st)
        elt == st[n]
    IN  IF Truthy(tag) /\ tag # Get(elt, K_tag) THEN Fail(st, "closing tag mismatch")
        ELSE IF ~Truthy(Get(elt, K_parent)) THEN Fail(st, "too many closing tags")
        ELSE LET parent == st[n - 1]
                 e1 == Del(elt, K_parent)
                 tg == Get(e1, K_tag).s
                 ix == Get(e1, K_index)
                 p2 == IF ix = Undef THEN Put(parent, tg, Closed(e1))
                       ELSE Put(parent, tg,
                                Arr([Get(parent, tg).a EXCEPT ![ix.n + 1] = Closed(e1)]))
             IN  Ok(Append(SubSeq(st, 1, n - 2), p2))

attribute(st, atb, val) ==
    LET n == Len(st)
        elt == st[n]
        atts == IF Truthy(Get(elt, K_attrs)) THEN Get(elt, K_attrs) ELSE EmptyObj
    IN  IF NotNullish(Get(atts, atb)) THEN Fail(st, "duplicate attribute")
        ELSE Ok([st EXCEPT ![n] = Put(elt, K_attrs, Put(atts, atb, Str(val)))])

value(st, val) ==
    LET n == Len(st)
        elt == st[n]
    IN  IF NotNullish(Get(elt, K_cdata)) THEN Fail(st, "cannot mix CDATA and value")
        ELSE IF Truthy(Get(elt, K_childCount)) THEN Fail(st, "cannot mix children and value")
        ELSE Ok([st EXCEPT ![n] = Put(elt, K_value, Str(val))])

\* mutant: a payload already stored is kept
cdata_keepingFirst(st, val) ==
    LET n == Len(st)
        elt == st[n]
    IN  IF NotNullish(Get(elt, K_value)) THEN Fail(st, "cannot mix value and CDATA")
        ELSE IF Truthy(Get(elt, K_childCount)) THEN Fail(st, "cannot mix children and CDATA")
        ELSE IF Has(elt, K_cdata) THEN Ok(st)
        ELSE Ok([st EXCEPT ![n] = Put(elt, K_cdata, Str(val))])

cdata(st, val) ==
    LET n == Len(st)
        elt == st[n]
    IN  IF NotNullish(Get(elt, K_value)) THEN Fail(st, "cannot mix value and CDATA")
        ELSE IF Truthy(Get(elt, K_childCount)) THEN Fail(st, "cannot mix children and CDATA")
        ELSE Ok([st EXCEPT ![n] = Put(elt, K_cdata, Str(val))])

\* yields [val, err]
getResult(st) ==
    LET root == st[1]
    IN  IF Len(st) # 1 THEN [val |-> Undef, err |-> "tag not closed"]
        ELSE IF ~Truthy(Get(root, K_childCount))
        THEN [val |-> Undef, err |-> "root tag not found"]
        ELSE IF Get(root, K_childCount) # Num(1)
        THEN [val |-> Undef, err |-> "too many elements at top level"]
        ELSE [val |-> Del(root, K_childCount), err |-> "none"]


(***************************************************************************)
(* parse (js-xml.ts 151-292).  A scanner state is [pos, st, err]: the      *)
(* cursor, the builder's chain, and "none" or the message of the error     *)
(* thrown.                                                                 *)
(***************************************************************************)
S(p, st, e) == [pos |-> p, st |-> st, err |-> e]

\* after a builder call r: go on at p, or stop with the error it threw at q
After(r, p, q) == IF r.err = "none" THEN S(p, r.st, "none") ELSE S(q, r.st, r.err)

RECURSIVE eatSpaces(_, _)
eatSpaces(s, p) == IF space(CharCodeAt(s, p)) THEN eatSpaces(s, p + 1) ELSE p

\* while (inWord[str.charCodeAt(pos)]) pos++
RECURSIVE eatWord(_, _)
eatWord(s, p) == IF inWord(CharCodeAt(s, p)) THEN eatWord(s, p + 1) ELSE p

\* the value of a digit in parseInt, 99 for a character that is no digit
DigitVal(ch) ==
    IF ch >= 48 /\ ch <= 57 THEN ch - 48
    ELSE IF ch >= 97 /\ ch <= 122 THEN ch - 87
    ELSE IF ch >= 65 /\ ch <= 90 THEN ch - 55
    ELSE 99

RECURSIVE ParseDigits(_, _, _, _, _)
ParseDigits(s, p, radix, acc, seen) ==
    IF p < Len(s) /\ DigitVal(s[p + 1]) < radix
    THEN ParseDigits(s, p + 1, radix, acc * radix + DigitVal(s[p + 1]), TRUE)
    ELSE [nan |-> ~seen, v |-> acc]

\* parseInt(s, radix): leading white space, a sign, 0x for radix 16, digits
parseInt(s, radix) ==
    LET p0 == eatSpaces(s, 0)
        neg == CharCodeAt(s, p0) = 45
        p1 == IF CharCodeAt(s, p0) \in {43, 45} THEN p0 + 1 ELSE p0
        p2 == IF radix = 16 /\ CharCodeAt(s, p1) = 48 /\ CharCodeAt(s, p1 + 1) \in {120, 88}
              THEN p1 + 2 ELSE p1
        r == ParseDigits(s, p2, radix, 0, FALSE)
    IN  [nan |-> r.nan, v |-> IF neg THEN 0 - r.v ELSE r.v]

\* String.fromCharCode: ToUint16
fromCharCode(v) == v % 65536

\* the replacement of &ent; in clean: [s, err]
Entity(ent) ==
    IF entitiesByName(ent) # NaN THEN [s |-> <<entitiesByName(ent)>>, err |-> "none"]
    ELSE IF ent[1] # HASH THEN [s |-> <<>>, err |-> "invalid entity"]
    ELSE LET e1 == Tail(ent)
             hex == CharCodeAt(e1, 0) = 120
             v == IF hex THEN parseInt(Tail(e1), 16) ELSE parseInt(e1, 10)
         IN  IF v.nan THEN [s |-> <<>>, err |-> "hex value expected"]
             ELSE [s |-> <<fromCharCode(v.v)>>, err |-> "none"]

\* str.replace(/&([^;]+);/g, ...) from position i on: [s, err]
RECURSIVE cleanFrom(_, _)
cleanFrom(s, i) ==
    IF i >= Len(s) THEN [s |-> <<>>, err |-> "none"]
    ELSE LET j == IndexOf(s, <<SEMI>>, i + 1)
         IN  IF s[i + 1] = AMP /\ j > i + 1
             THEN LET r == Entity(Substring(s, i + 1, j))
                      rest == cleanFrom(s, j + 1)
                  IN  IF r.err # "none" THEN r
                      ELSE IF rest.err # "none" THEN rest
                      ELSE [s |-> r.s \o rest.s, err |-> "none"]
             ELSE LET rest == cleanFrom(s, i + 1)
                  IN  IF rest.err # "none" THEN rest
                      ELSE [s |-> <<s[i + 1]>> \o rest.s, err |-> "none"]

clean(s) == cleanFrom(s, 0)

\* checkEmpty throws when s has a character that is not white space
checkEmpty(s) == \A i \in 1..Len(s) : space(s[i])

T_comment == <<45, 45>>
T_commentEnd == <<45, 45, 62>>
T_cdata == <<67, 68, 65, 84, 65, 91>>
T_cdataEnd == <<93, 93, 62>>
T_piEnd == <<63, 62>>

\* the content after ">" (js-xml.ts 229-248); p is the position after ">" or
\* after the last comment skipped, val the text gathered before p
RECURSIVE Content(_, _, _, _)

\* a comment starts at j: skip it, k is the position of its "-->"
ContentComment(s, st, val, j, k) ==
    IF k < 0 THEN S(j + 4, st, "unterminated comment") ELSE Content(s, k + 3, st, val)

\* c is clean(str.substring(pos, j))
ContentText(s, p, st, val, j, c) ==
    IF c.err # "none" THEN S(p, st, c.err)
    ELSE IF CharCodeAt(s, j + 1) = EXCLAM /\ Substring(s, j + 2, j + 4) = T_comment
    THEN ContentComment(s, st, val \o c.s, j, IndexOf(s, T_commentEnd, j + 4))
    ELSE IF CharCodeAt(s, j + 1) = SLASH THEN After(value(st, val \o c.s), j, p)
    ELSE IF checkEmpty(val \o c.s) THEN S(p, st, "none")
    ELSE S(p, st, "unexpected value")

\* j is str.indexOf('<', pos)
ContentAt(s, p, st, val, j) ==
    IF j < 0 THEN S(p, st, "tag not closed")
    ELSE ContentText(s, p, st, val, j, clean(Substring(s, p, j)))

Content(s, p, st, val) == ContentAt(s, p, st, val, IndexOf(s, <<LT>>, p))

\* the loop over the attributes of an open tag (js-xml.ts 209-253)
RECURSIVE TagLoop(_, _, _)

\* r is what bld.attribute gave; p4 is the position of the closing quote
AttrDone(s, p4, st, r) ==
    IF r.err # "none" THEN S(p4, st, r.err) ELSE TagLoop(s, p4 + 1, r.st)

\* c is clean(str.substring(beg, pos)), the value of attribute atb
AttrSet(s, atb, p4, st, c) ==
    IF c.err # "none" THEN S(p4, st, c.err) ELSE AttrDone(s, p4, st, attribute(st, atb, c.s))

\* p3 is the position of the opening quote, p4 = str.indexOf(quote, p3 + 1)
AttrValue(s, atb, p3, p4, st) ==
    IF p4 < 0 THEN S(p4, st, "double quote missing")
    ELSE AttrSet(s, atb, p4, st, clean(Substring(s, p3 + 1, p4)))

\* eatQuote at p3
AttrQuote(s, atb, p3, st) ==
    IF CharCodeAt(s, p3) \notin {DQUOTE, SQUOTE} THEN S(p3, st, "expected quote")
    ELSE AttrValue(s, atb, p3, IndexOf(s, <<CharCodeAt(s, p3)>>, p3 + 1), st)

\* eat(EQ) at p2
AttrEq(s, atb, p2, st) ==
    IF CharCodeAt(s, p2) # EQ THEN S(p2, st, "expected =")
    ELSE AttrQuote(s, atb, eatSpaces(s, p2 + 1), st)

\* the attribute name is str.substring(beg, p1)
AttrName(s, beg, p1, st) == AttrEq(s, Substring(s, beg, p1), eatSpaces(s, p1), st)

\* beg is the position after eatSpaces
TagAt(s, beg, st) ==
    IF CharCodeAt(s, beg) = SLASH
    THEN IF CharCodeAt(s, beg + 1) # GT THEN S(beg + 1, st, "expected >")
         ELSE After(pop(st, Undef), beg + 2, beg + 2)
    ELSE IF begWord(CharCodeAt(s, beg)) THEN AttrName(s, beg, eatWord(s, beg + 1), st)
    ELSE IF CharCodeAt(s, beg) = GT THEN Content(s, beg + 1, st, <<>>)
    ELSE S(beg, st, "unexpected character")

TagLoop(s, p, st) == TagAt(s, eatSpaces(s, p), st)

\* The cursor alone.  AttrNext is the cursor at the top of the next iteration
\* of the attribute loop (js-xml.ts 209-228) when the iteration entered at p
\* scans an attribute, NaN when it leaves the loop; an error raised by clean or
\* by the builder is not looked at.
AttrNext(s, p) ==
    LET beg == eatSpaces(s, p)
        p2 == eatSpaces(s, eatWord(s, beg + 1))
        p3 == eatSpaces(s, p2 + 1)
        p4 == IndexOf(s, <<CharCodeAt(s, p3)>>, p3 + 1)
    IN  IF /\ begWord(CharCodeAt(s, beg))
           /\ CharCodeAt(s, p2) = EQ
           /\ CharCodeAt(s, p3) \in {DQUOTE, SQUOTE}
           /\ p4 >= 0
        THEN p4 + 1
        ELSE NaN

\* the same for the loop that skips the comments of a content (js-xml.ts 232-244)
CommentNext(s, p) ==
    LET j == IndexOf(s, <<LT>>, p)
        k == IndexOf(s, T_commentEnd, j + 4)
    IN  IF /\ j >= 0
           /\ CharCodeAt(s, j + 1) = EXCLAM
           /\ Substring(s, j + 2, j + 4) = T_comment
           /\ k >= 0
        THEN k + 3
        ELSE NaN

\* the cursor at the top of each iteration of the loop entered at p; the list
\* ends with the first position that is not after the one before
RECURSIVE Heads(_, _, _)
Heads(s, p, attr) ==
    LET n == IF attr THEN AttrNext(s, p) ELSE CommentNext(s, p)
    IN  IF n = NaN THEN <<p>>
        ELSE IF n <= p THEN <<p, n>>
        ELSE <<p>> \o Heads(s, n, attr)

\* an open tag whose name ends at p1 (js-xml.ts 206-208)
OpenTag(s, p1, st, r) ==
    IF r.err # "none" THEN S(p1, st, r.err) ELSE TagLoop(s, p1, r.st)

\* a closing tag (js-xml.ts 254-265); p1 is the position after its name, tag
\* the name or Undef, p2 the position after eatSpaces
CloseTagAt(s, p2, st, tag) ==
    IF CharCodeAt(s, p2) # GT THEN S(p2, st, "expected >")
    ELSE After(pop(st, tag), p2 + 1, p2 + 1)

CloseTag(s, p, st) ==
    IF begWord(CharCodeAt(s, p))
    THEN CloseTagAt(s, eatSpaces(s, eatWord(s, p + 1)), st,
                    Str(Substring(s, p, eatWord(s, p + 1))))
    ELSE CloseTagAt(s, eatSpaces(s, p), st, Undef)

\* mutant: the cursor goes back to the "<" of the comment
Comment_rescanning(p, st, j) == IF j < 0 THEN S(p, st, "--> missing") ELSE S(p - 4, st, "none")

\* a comment at the top of the loop (js-xml.ts 268-271); j is the position of "-->"
Comment(p, st, j) == IF j < 0 THEN S(p, st, "--> missing") ELSE S(j + 3, st, "none")

\* a CDATA section (js-xml.ts 272-278); p is the position after "CDATA[", j the
\* position of "]]>"
CDataEnd(s, p, st, j, r) ==
    IF r.err # "none" THEN S(p, st, r.err) ELSE S(eatSpaces(s, j + 3), r.st, "none")

\* mutant: the payload is entity-decoded like element text
CDataAt_decoding(s, p, st, j) ==
    IF j < 0 THEN S(p, st, "]]> missing")
    ELSE CDataEnd(s, p, st, j, cdata(st, clean(Substring(s, p, j)).s))

CDataAt(s, p, st, j) ==
    IF j < 0 THEN S(p, st, "]]> missing")
    ELSE CDataEnd(s, p, st, j, cdata(st, Substring(s, p, j)))

\* "<!" (js-xml.ts 266-281); p is the position after "!"
Exclam(s, p, st) ==
    IF CharCodeAt(s, p) = DASH /\ CharCodeAt(s, p + 1) = DASH
    THEN Comment(p + 2, st, IndexOf(s, T_commentEnd, p + 2))
    ELSE IF CharCodeAt(s, p) = OBRA /\ Substring(s, p + 1, p + 7) = T_cdata
    THEN CDataAt(s, p + 7, st, IndexOf(s, T_cdataEnd, p + 7))
    ELSE S(IF CharCodeAt(s, p) = DASH THEN p + 2 ELSE p + 1, st, "invalid syntax after <!")

\* "<?" (js-xml.ts 282-285); j is the position of "?>"
ProcInst(p, st, j) == IF j < 0 THEN S(p, st, "?> missing") ELSE S(j + 2, st, "none")

\* one iteration of the scan loop, before its closing eatSpaces (js-xml.ts 203-288)
Dispatch(s, p, st) ==
    IF CharCodeAt(s, p) # LT THEN S(p, st, "expected <")
    ELSE IF begWord(CharCodeAt(s, p + 1))
    THEN OpenTag(s, eatWord(s, p + 2), st, push(st, Substring(s, p + 1, eatWord(s, p + 2))))
    ELSE IF CharCodeAt(s, p + 1) = SLASH THEN CloseTag(s, p + 2, st)
    ELSE IF CharCodeAt(s, p + 1) = EXCLAM THEN Exclam(s, p + 2, st)
    ELSE IF CharCodeAt(s, p + 1) = QMARK THEN ProcInst(p + 2, st, IndexOf(s, T_piEnd, p + 2))
    ELSE S(p + 2, st, "unexpected character")

\* mutant: an iteration ends by skipping to the next "<"
EndIteration_skipping(s, r) ==
    IF r.err # "none" THEN r
    ELSE S(IF IndexOf(s, <<LT>>, r.pos) < 0 THEN Len(s) ELSE IndexOf(s, <<LT>>, r.pos),
           r.st, "none")

\* the eatSpaces that ends an iteration; r is the state after the dispatch
EndIteration(s, r) == IF r.err # "none" THEN r ELSE S(eatSpaces(s, r.pos), r.st, "none")

Iteration(s, p, st) == EndIteration(s, Dispatch(s, p, st))

\* the scan loop from p on, then getResult (js-xml.ts 202-291): [val, err]
RECURSIVE ScanFrom(_, _, _)
ScanFrom(s, p, st) ==
    IF p >= Len(s) THEN getResult(st)
    ELSE LET r == Iteration(s, p, st)
         IN  IF r.err # "none" THEN [val |-> Undef, err |-> r.err]
             ELSE ScanFrom(s, r.pos, r.st)

\* parse(s) without reviver (js-xml.ts 151-291)
parse(s) == ScanFrom(s, IndexOf(s, <<LT>>, 0), BuilderInit)

(***************************************************************************)
(* The formatter (js-xml.ts 317-367).  A formatter state is                *)
(* [str, depth, err]; ind is options.indent (a JS value).                  *)
(***************************************************************************)
F(s, d) == [str |-> s, depth |-> d, err |-> "none"]

RECURSIVE Repeat(_, _)
Repeat(s, n) == IF n <= 0 THEN <<>> ELSE s \o Repeat(s, n - 1)

\* indent(): '\n' + Array(depth + 1).join(options.indent || '\t')
indent(f, ind) == F(f.str \o <<LF>> \o Repeat(IF Truthy(ind) THEN ind.s ELSE <<9>>, f.depth), f.depth)

MaybeIndent(f, ind) == IF Truthy(ind) THEN indent(f, ind) ELSE f

HexDigit(d) == IF d < 10 THEN 48 + d ELSE 87 + d

\* Number.prototype.toString(radix), n >= 0
RECURSIVE toString(_, _)
toString(n, radix) ==
    IF n < radix THEN <<HexDigit(n)>>
    ELSE toString(n \div radix, radix) \o <<HexDigit(n % radix)>>

\* mutant: no padding
Pad_missing(hex) == hex

\* hex padded with "0" to 2 digits, and to 4 when longer than 2
Pad(hex) ==
    LET h2 == IF Len(hex) < 2 THEN <<48>> \o hex ELSE hex
    IN  IF Len(h2) > 2 /\ Len(h2) < 4 THEN <<48>> \o h2 ELSE h2

\* the characters the regular expression of escape leaves alone
Verbatim(ch) ==
    /\ ch \notin {38, 60, 62, 34, 39}
    /\ \/ (ch >= 32 /\ ch <= 126)
       \/ (ch >= 161 /\ ch <= 55295)
       \/ (ch >= 57344 /\ ch <= 65533)

escapeChar(ch) ==
    IF Verbatim(ch) THEN <<ch>>
    ELSE IF entitiesByChar(ch) # <<>> THEN <<AMP>> \o entitiesByChar(ch) \o <<SEMI>>
    ELSE <<AMP, HASH, 120>> \o Pad(toString(ch, 16)) \o <<SEMI>>

\* mutant: the text is written as it is
escape_verbatim(val) == IF IsStr(val) THEN val.s ELSE toString(val.n, 10)

\* '' + val for a native function: "function f() { [native code] }"; the name
\* is the member's and the text the engine's, it has no markup character
FnText ==
    <<102, 117, 110, 99, 116, 105, 111, 110, 32, 102, 40, 41, 32, 123, 32, 91, 110, 97, 116, 105, 118, 101, 32, 99, 111, 100, 101, 93, 32, 125>>

\* escape(val): a string is escaped, a number or a function is '' + val
escape(val) ==
    IF IsStr(val) THEN Flatten([i \in 1..Len(val.s) |-> escapeChar(val.s[i])])
    ELSE IF val = Fn THEN FnText
    ELSE toString(val.n, 10)

beginTag(f, ind, tag) ==
    LET g == MaybeIndent(f, ind)
    IN  F(g.str \o <<LT>> \o tag, g.depth + 1)

addAttribute(f, atb, val) ==
    F(f.str \o <<SP>> \o atb \o <<EQ, DQUOTE>> \o escape(val) \o <<DQUOTE>>, f.depth)

endTag(f, close) ==
    IF close THEN F(f.str \o <<SLASH, GT>>, f.depth - 1) ELSE F(f.str \o <<GT>>, f.depth)

\* closeTag(tag, val): val is Undef when closeTag(tag) is called
closeTag(f, ind, tag, val) ==
    LET g == IF NotNullish(val) THEN F(f.str \o escape(val), f.depth - 1)
             ELSE MaybeIndent(F(f.str, f.depth - 1), ind)
    IN  F(g.str \o <<LT, SLASH>> \o tag \o <<GT>>, g.depth)

fmt_cdata(f, data) == F(f.str \o <<LT, EXCLAM, OBRA>> \o T_cdata \o data.s \o T_cdataEnd, f.depth)

\* str.substring(str.indexOf('<'))
fmt_getResult(f) == Substring(f.str, IndexOf(f.str, <<LT>>, 0), Len(f.str))

(***************************************************************************)
(* stringify (js-xml.ts 491-559).                                          *)
(***************************************************************************)
K_nil == <<120, 115, 105, 58, 110, 105, 108>>
V_true == Str(<<116, 114, 117, 101>>)

Errf(f, msg) == [str |-> f.str, depth |-> f.depth, err |-> msg]

\* the attributes of elt.$ whose value is not null, in key order
RECURSIVE addAttributes(_, _, _)
addAttributes(f, atts, i) ==
    IF i > Len(atts.e) THEN f
    ELSE addAttributes(IF NotNullish(atts.e[i].v)
                       THEN addAttribute(f, atts.e[i].k, atts.e[i].v) ELSE f,
                       atts, i + 1)

\* mutant: no key counts as a child
ChildKeys_none(elt) == <<>>

\* the keys of elt that do not start with '$'
ChildKeys(elt) == SelectSeq(Keys(elt), LAMBDA k : CharCodeAt(k, 0) # 36)

RECURSIVE strfy(_, _, _, _)
RECURSIVE strfyEach(_, _, _, _, _)
RECURSIVE strfyKeys(_, _, _, _, _)

strfy(f, ind, elt, tag) ==
    IF f.err # "none" \/ elt = Undef THEN f
    ELSE IF IsArr(elt) THEN strfyEach(f, ind, elt.a, tag, 1)
    ELSE LET b == beginTag(f, ind, tag)
         IN  IF elt = Null THEN endTag(addAttribute(b, K_nil, V_true), TRUE)
             ELSE IF ~IsObj(elt) THEN closeTag(endTag(b, FALSE), ind, tag, elt)
             ELSE LET a == IF Truthy(Get(elt, K_attrs))
                           THEN addAttributes(b, Get(elt, K_attrs), 1) ELSE b
                      keys == ChildKeys(elt)
                  IN  IF Get(elt, K_value) # Undef
                      THEN IF Len(keys) > 0 THEN Errf(a, "cannot mix $value and $children")
                           ELSE IF Truthy(Get(elt, K_cdata))
                           THEN Errf(a, "cannot mix $value and $cdata")
                           ELSE IF Get(elt, K_value) = Null
                           THEN endTag(addAttribute(a, K_nil, V_true), TRUE)
                           ELSE closeTag(endTag(a, FALSE), ind, tag, Get(elt, K_value))
                      ELSE IF NotNullish(Get(elt, K_cdata))
                      THEN IF Len(keys) > 0 THEN Errf(a, "cannot mix $cdata and $children")
                           ELSE closeTag(fmt_cdata(endTag(a, FALSE), Get(elt, K_cdata)),
                                         ind, tag, Undef)
                      ELSE IF Len(keys) > 0
                      THEN LET r == strfyKeys(endTag(a, FALSE), ind, elt, keys, 1)
                           IN  IF r.err # "none" THEN r ELSE closeTag(r, ind, tag, Undef)
                      ELSE endTag(a, TRUE)

\* elt.forEach(child => strfy(child, tag))
strfyEach(f, ind, items, tag, i) ==
    IF i > Len(items) \/ f.err # "none" THEN f
    ELSE strfyEach(strfy(f, ind, items[i], tag), ind, items, tag, i + 1)

\* keys.forEach(key => strfy(elt[key], key))
strfyKeys(f, ind, elt, keys, i) ==
    IF i > Len(keys) \/ f.err # "none" THEN f
    ELSE strfyKeys(strfy(f, ind, Get(elt, keys[i]), keys[i]), ind, elt, keys, i + 1)

\* return fmt.getResult(), unless strfy threw
Formatted(f) ==
    IF f.err # "none" THEN [s |-> <<>>, err |-> f.err]
    ELSE [s |-> fmt_getResult(f), err |-> "none"]

\* yields [s, err]
stringify(elt, ind) ==
    IF Len(elt.e) # 1 THEN [s |-> <<>>, err |-> "bad root element"]
    ELSE Formatted(strfy(F(<<>>, 0), ind, elt.e[1].v, elt.e[1].k))


(***************************************************************************)
(* normalizeNamespaces (js-xml.ts 375-483).  ns is a JS object from prefix *)
(* to URI.  A call yields [name, val, env]: the pair it returns (name is   *)
(* Undef when it was called without a tag) and env, the content after the  *)
(* call of the object the caller passed as ns.                             *)
(***************************************************************************)
T_xmlns == <<120, 109, 108, 110, 115>>
T_undefined == <<117, 110, 100, 101, 102, 105, 110, 101, 100>>
BAR == 124

\* String.prototype.split(sep), sep one character
RECURSIVE split(_, _)
split(s, sep) ==
    LET j == IndexOf(s, <<sep>>, 0)
    IN  IF j < 0 THEN <<s>> ELSE <<Substring(s, 0, j)>> \o split(Substring(s, j + 1, Len(s)), sep)

\* parts[1], Undef when there is none
Part1(parts) == IF Len(parts) >= 2 THEN Str(parts[2]) ELSE Undef

\* '' + v for a string or undefined
ToStr(v) == IF v = Undef THEN T_undefined ELSE v.s

\* mutant: a prefixed tag keeps its local part only
resolveTag_local(ns, tag) ==
    LET parts == split(tag, COLON)
    IN  IF Truthy(Part1(parts)) THEN parts[2]
        ELSE IF Truthy(Get(ns, <<>>)) THEN ToStr(Get(ns, <<>>)) \o <<BAR>> \o tag
        ELSE tag

\* the name a tag resolves to under ns (js-xml.ts 382-387 and 475-480)
resolveTag(ns, tag) ==
    LET parts == split(tag, COLON)
    IN  IF Truthy(Part1(parts)) THEN ToStr(Get(ns, parts[1])) \o <<BAR>> \o parts[2]
        ELSE IF Truthy(Get(ns, <<>>)) THEN ToStr(Get(ns, <<>>)) \o <<BAR>> \o tag
        ELSE tag

\* the first loop over the attributes (js-xml.ts 410-429), from attribute i
\* on: sc is [ns, decl, nsAttr, bare]; a declaration writes into ns, which
\* is a copy of the caller's object from the first declaration on
RECURSIVE scanAttributes(_, _, _)
scanAttributes(atts, sc, i) ==
    IF i > Len(atts.e) THEN sc
    ELSE LET att == atts.e[i].k
             parts == split(att, COLON)
         IN  IF parts[1] = T_xmlns
             THEN scanAttributes(atts,
                      [sc EXCEPT !.decl = TRUE,
                                 !.ns = Put(sc.ns,
                                            IF Truthy(Part1(parts)) THEN parts[2] ELSE <<>>,
                                            atts.e[i].v)],
                      i + 1)
             ELSE IF Truthy(Part1(parts))
             THEN scanAttributes(atts, [sc EXCEPT !.nsAttr = TRUE], i + 1)
             ELSE scanAttributes(atts, [sc EXCEPT !.bare = TRUE], i + 1)

\* mutant: an attribute without prefix takes the default namespace
RECURSIVE translateAttributes_defaulting(_, _, _, _)
translateAttributes_defaulting(atts, ns, res, i) ==
    IF i > Len(atts.e) THEN res
    ELSE LET att == atts.e[i].k
             parts == split(att, COLON)
         IN  IF parts[1] = T_xmlns THEN translateAttributes_defaulting(atts, ns, res, i + 1)
             ELSE IF Truthy(Part1(parts))
             THEN translateAttributes_defaulting(atts, ns,
                      Put(res, ToStr(Get(ns, parts[1])) \o <<BAR>> \o parts[2], atts.e[i].v),
                      i + 1)
             ELSE translateAttributes_defaulting(atts, ns,
                      Put(res,
                          IF Truthy(Get(ns, <<>>)) THEN ToStr(Get(ns, <<>>)) \o <<BAR>> \o att
                          ELSE att,
                          atts.e[i].v),
                      i + 1)

\* the second loop (js-xml.ts 434-444): result.$ without the declarations
RECURSIVE translateAttributes(_, _, _, _)
translateAttributes(atts, ns, res, i) ==
    IF i > Len(atts.e) THEN res
    ELSE LET att == atts.e[i].k
             parts == split(att, COLON)
         IN  IF parts[1] = T_xmlns THEN translateAttributes(atts, ns, res, i + 1)
             ELSE IF Truthy(Part1(parts))
             THEN translateAttributes(atts, ns,
                      Put(res, ToStr(Get(ns, parts[1])) \o <<BAR>> \o parts[2], atts.e[i].v),
                      i + 1)
             ELSE translateAttributes(atts, ns, Put(res, att, atts.e[i].v), i + 1)

\* an array seen as an object: its indices are its keys
AsObj(v) ==
    IF IsArr(v) THEN Obj([i \in 1..Len(v.a) |-> [k |-> toString(i - 1, 10), v |-> v.a[i]]])
    ELSE v

\* mutant: the new value goes in front of the ones stored
Merge_prepending(result, name, val) ==
    LET tmp == Get(result, name)
    IN  IF Truthy(tmp)
        THEN IF IsArr(tmp) THEN Put(result, name, Arr(<<val>> \o tmp.a))
             ELSE Put(result, name, Arr(<<val, tmp>>))
        ELSE Put(result, name, val)

\* result[name] after _addEntry stored val under name (js-xml.ts 398-402)
Merge(result, name, val) ==
    LET tmp == Get(result, name)
    IN  IF Truthy(tmp)
        THEN IF IsArr(tmp) THEN Put(result, name, Arr(Append(tmp.a, val)))
             ELSE Put(result, name, Arr(<<tmp, val>>))
        ELSE Put(result, name, val)

\* mutant: the keys of the object are visited last to first
RECURSIVE Entries_lastFirst(_, _)
Entries_lastFirst(o, i) ==
    IF i > Len(o.e) THEN <<>>
    ELSE LET b == o.e[i].k
             val == o.e[i].v
         IN  Entries_lastFirst(o, i + 1)
             \o (IF CharCodeAt(b, 0) = 36 \/ b = <<>> THEN <<>>
                 ELSE IF IsArr(val) THEN [j \in 1..Len(val.a) |-> [k |-> b, v |-> val.a[j]]]
                 ELSE <<[k |-> b, v |-> val]>>)

\* mutant: of the special items only $ and $value are passed over
RECURSIVE Entries_keepingCData(_, _)
Entries_keepingCData(o, i) ==
    IF i > Len(o.e) THEN <<>>
    ELSE LET b == o.e[i].k
             val == o.e[i].v
         IN  (IF b \in {K_attrs, K_value} \/ b = <<>> THEN <<>>
              ELSE IF IsArr(val) THEN [j \in 1..Len(val.a) |-> [k |-> b, v |-> val.a[j]]]
              ELSE <<[k |-> b, v |-> val]>>)
             \o Entries_keepingCData(o, i + 1)

\* the (name, value) pairs the child loop hands to _addEntry, in its order
\* (js-xml.ts 453-469)
RECURSIVE Entries(_, _)
Entries(o, i) ==
    IF i > Len(o.e) THEN <<>>
    ELSE LET b == o.e[i].k
             val == o.e[i].v
         IN  (IF CharCodeAt(b, 0) = 36 \/ b = <<>> THEN <<>>
              ELSE IF IsArr(val) THEN [j \in 1..Len(val.a) |-> [k |-> b, v |-> val.a[j]]]
              ELSE <<[k |-> b, v |-> val]>>)
             \o Entries(o, i + 1)

\* mutant: the declarations are written into the caller's object
callerNs_shared(decl, ns, own) == own

\* the caller's ns object after the call: the element's first declaration
\* made ns a copy (js-xml.ts 415-421), so the caller's is as it was
callerNs(decl, ns, own) == IF decl THEN ns ELSE own

RECURSIVE _normalizeNamespaces(_, _, _)
RECURSIVE addEntries(_, _, _, _)

\* _addEntry for entries[i..]: [res, ns], the result object and the content
\* of the element's ns object
addEntries(res, ns, entries, i) ==
    IF i > Len(entries) THEN [res |-> res, ns |-> ns]
    ELSE LET r == _normalizeNamespaces(entries[i].v, ns, Str(entries[i].k))
         IN  addEntries(Merge(res, r.name.s, r.val), r.env, entries, i + 1)

_normalizeNamespaces(obj, ns, tag) ==
    IF ~Truthy(obj) \/ ~(IsObj(obj) \/ IsArr(obj))
    THEN [name |-> IF Truthy(tag) THEN Str(resolveTag(ns, tag.s)) ELSE Undef,
          val |-> obj, env |-> ns]
    ELSE LET o == AsObj(obj)
             attributes == Get(o, K_attrs)
             sc == IF Truthy(attributes)
                   THEN scanAttributes(attributes,
                            [ns |-> ns, decl |-> FALSE, nsAttr |-> FALSE, bare |-> FALSE], 1)
                   ELSE [ns |-> ns, decl |-> FALSE, nsAttr |-> FALSE, bare |-> FALSE]
             kept == sc.nsAttr \/ sc.bare
             r0 == IF ~kept THEN EmptyObj
                   ELSE IF sc.decl \/ sc.nsAttr
                   THEN Put(EmptyObj, K_attrs, translateAttributes(attributes, sc.ns, EmptyObj, 1))
                   ELSE Put(EmptyObj, K_attrs, attributes)
             entries == Entries(o, 1)
             ch == addEntries(r0, sc.ns, entries, 1)
             onlyValue == ~kept /\ entries = <<>>
             val == Get(o, K_value)
             result == IF val = Undef THEN ch.res
                       ELSE IF onlyValue THEN val
                       ELSE Put(ch.res, K_value, val)
         IN  [name |-> IF Truthy(tag) THEN Str(resolveTag(ch.ns, tag.s)) ELSE Undef,
              val |-> result,
              env |-> callerNs(sc.decl, ns, ch.ns)]

normalizeNamespaces(obj) == _normalizeNamespaces(obj, EmptyObj, Undef).val


(***************************************************************************)
(* Inputs.  An XML source element is [tag, atts, kind, text, kids] with    *)
(* atts a sequence of [n, v] and kind one of "empty" (<t/>), "text"        *)
(* (<t>text</t>), "cdata" (<t><![CDATA[text]]></t>) and "kids"             *)
(* (<t>kids</t>); Write is the text it stands for.  A kid of kind "chars"  *)
(* is character data written between the elements of a content.            *)
(***************************************************************************)
Elem(tag, atts, kind, text, kids) ==
    [tag |-> tag, atts |-> atts, kind |-> kind, text |-> text, kids |-> kids]

Att(n, v) == [n |-> n, v |-> v]

Empty(tag, atts) == Elem(tag, atts, "empty", <<>>, <<>>)
Text(tag, atts, s) == Elem(tag, atts, "text", s, <<>>)
CData(tag, atts, s) == Elem(tag, atts, "cdata", s, <<>>)
Kids(tag, atts, kids) == Elem(tag, atts, "kids", <<>>, kids)
Chars(s) == Elem(<<>>, <<>>, "chars", s, <<>>)

WriteAtts(atts) ==
    Flatten([i \in 1..Len(atts) |->
                <<SP>> \o atts[i].n \o <<EQ, DQUOTE>> \o atts[i].v \o <<DQUOTE>>])

RECURSIVE Write(_)
Write(e) ==
    IF e.kind = "chars" THEN e.text
    ELSE
    <<LT>> \o e.tag \o WriteAtts(e.atts) \o
    (CASE e.kind = "empty" -> <<SLASH, GT>>
       [] e.kind = "text" -> <<GT>> \o e.text \o <<LT, SLASH>> \o e.tag \o <<GT>>
       [] e.kind = "cdata" ->
            <<GT, LT, EXCLAM, OBRA>> \o T_cdata \o e.text \o T_cdataEnd
            \o <<LT, SLASH>> \o e.tag \o <<GT>>
       [] e.kind = "kids" ->
            <<GT>> \o Flatten([i \in 1..Len(e.kids) |-> Write(e.kids[i])])
            \o <<LT, SLASH>> \o e.tag \o <<GT>>)

\* the sequences over S of length lo..hi
SeqsOf(A, lo, hi) == UNION {[1..n -> A] : n \in lo..hi}


MaxKids == 3
MaxDepth == 2
MaxText == 2

n_a == <<97>>
n_b == <<98>>
n_c == <<99>>
n_t == <<116>>
n_p == <<112>>
n_q == <<113>>
n_xa == <<120, 58, 97>>
n_xt == <<120, 58, 116>>
n_xp == <<120, 58, 112>>
n_xmlns_x == <<120, 109, 108, 110, 115, 58, 120>>
u_abc == <<97, 98, 99>>
u_def == <<100, 101, 102>>

\* A, and the elements of A inside 1..d elements c, with and without an attribute
RECURSIVE Nested(_, _)
Nested(A, d) ==
    IF d = 0 THEN A
    ELSE A \cup {Kids(n_c, at, <<e>>) :
                    e \in Nested(A, d - 1), at \in {<<>>, <<Att(n_p, <<51>>)>>}}

\* elements without children: every shape of tag, attributes and content; a
\* CDATA payload is text that a CDATA section can hold (it has no "]]>")
ShapeAtts == {<<>>, <<Att(n_p, <<51>>)>>, <<Att(n_p, <<51>>), Att(n_q, <<52>>)>>}

ShapeLeaves ==
    UNION {{Empty(tg, at), Text(tg, at, <<>>), Text(tg, at, <<53>>),
            CData(tg, at, <<>>), CData(tg, at, <<60, 120, 62>>),
            CData(tg, at, <<38, 108, 116, 59>>)} :
           tg \in {n_a, n_b}, at \in ShapeAtts}

ShapeDocs == Nested(ShapeLeaves, MaxDepth)

\* an element with 1..MaxKids children whose tags repeat and interleave
KidLeaves ==
    {Text(n_b, <<>>, <<51>>), Text(n_b, <<>>, <<>>), Empty(n_b, <<>>),
     Text(n_b, <<Att(n_p, <<51>>)>>, <<52>>), Text(n_c, <<>>, <<53>>),
     Kids(n_b, <<>>, <<Text(n_c, <<>>, <<54>>), Text(n_c, <<>>, <<>>)>>)}

KidDocs == {Kids(n_a, <<>>, ks) : ks \in SeqsOf(KidLeaves, 1, MaxKids)}

\* namespaces: declarations on the root and on the children, prefixed and
\* unprefixed names, prefixed and unprefixed attributes
NsRoots ==
    {<<n_t, <<Att(n_xmlns_x, u_abc)>>>>,
     <<n_t, <<Att(n_p, <<51>>), Att(T_xmlns, u_abc), Att(n_xmlns_x, u_abc)>>>>,
     <<n_xt, <<Att(n_xp, <<51>>), Att(n_xmlns_x, u_def)>>>>}

NsLeaves ==
    {Text(n_a, <<Att(T_xmlns, u_abc)>>, <<49>>),
     Text(n_xa, <<>>, <<50>>),
     Text(n_a, <<Att(T_xmlns, u_def)>>, <<>>),
     Text(n_a, <<>>, <<>>),
     Text(n_a, <<Att(T_xmlns, u_abc)>>, <<52>>),
     Empty(n_xa, <<Att(n_xp, <<52>>), Att(n_q, <<53>>), Att(n_xmlns_x, u_def)>>),
     Kids(n_b, <<Att(T_xmlns, u_def)>>, <<Text(n_a, <<>>, <<54>>), Text(n_xa, <<>>, <<55>>)>>)}

NsDocs == {Kids(r[1], r[2], ks) : r \in NsRoots, ks \in SeqsOf(NsLeaves, 1, MaxKids)}

\* the documents of the "namespace transformation" test (part_000 185-239)
n_ta == <<116, 58, 97>>
n_tx == <<116, 58, 120>>
n_tc == <<116, 58, 99>>
n_ty == <<116, 58, 121>>
n_vd == <<118, 58, 100>>
n_x == <<120>>
n_y == <<121>>
n_xmlns_t == <<120, 109, 108, 110, 115, 58, 116>>
n_xmlns_v == <<120, 109, 108, 110, 115, 58, 118>>
u_xyz == <<120, 121, 122>>
u_ddd == <<100, 100, 100>>

NsTest5 ==
    Kids(n_a, <<Att(T_xmlns, u_abc), Att(n_tx, <<51>>), Att(n_y, <<52>>), Att(n_xmlns_t, u_xyz)>>,
         <<Kids(n_b, <<>>, <<Empty(n_c, <<Att(T_xmlns, u_def)>>)>>)>>)

NsTest6 ==
    Kids(n_ta, <<Att(T_xmlns, u_abc), Att(n_tx, <<51>>), Att(n_y, <<52>>), Att(n_xmlns_t, u_xyz)>>,
         <<Kids(n_b, <<>>, <<Text(n_tc, <<Att(T_xmlns, u_def)>>, <<53, 53>>)>>),
           Empty(n_vd, <<Att(n_xmlns_v, u_ddd), Att(n_ty, <<55>>)>>)>>)

NsTest7 ==
    Kids(n_t, <<Att(n_xmlns_x, u_abc)>>,
         <<Text(n_a, <<Att(T_xmlns, u_abc)>>, <<49>>), Text(n_xa, <<>>, <<50>>),
           Text(n_a, <<Att(T_xmlns, u_def)>>, <<51>>), Text(n_a, <<Att(T_xmlns, u_abc)>>, <<52>>)>>)

TestDocs ==
    {Text(n_ta, <<Att(n_xmlns_t, u_xyz)>>, <<>>), Empty(n_ta, <<Att(n_xmlns_t, u_xyz)>>),
     Text(n_a, <<Att(T_xmlns, u_abc), Att(n_x, <<51>>), Att(n_y, <<52>>)>>, <<53>>),
     NsTest5, NsTest6, NsTest7}

XmlDocs == ShapeDocs \cup KidDocs \cup NsDocs \cup TestDocs

\* contents of elements and character data: "x", " x", "x " and " " before,
\* between and after the children of the root or of an element c under it,
\* and after a comment
T_x == <<120>>
CommentX == <<LT, EXCLAM, DASH, DASH, 99, DASH, DASH, GT, 120>>

MixedItems ==
    {Empty(n_b, <<>>), Text(n_b, <<Att(n_p, <<51>>)>>, <<51>>), Kids(n_b, <<>>, <<Empty(n_c, <<>>)>>),
     Chars(T_x), Chars(<<SP>> \o T_x), Chars(T_x \o <<LF>>), Chars(<<SP>>), Chars(CommentX)}

MixedDocs ==
    UNION {{Kids(n_a, <<>>, ks), Kids(n_c, <<Att(n_p, <<51>>)>>, <<Kids(n_a, <<>>, ks)>>)} :
           ks \in SeqsOf(MixedItems, 2, MaxKids)}

\* elements whose content is up to MaxSections CDATA sections and pieces of
\* white space, at the root and in a child, with and without an attribute
MaxSections == 3

Section(payload) == Chars(<<LT, EXCLAM, OBRA>> \o T_cdata \o payload \o T_cdataEnd)

SectionItems ==
    {Section(T_x), Section(<<121>>), Section(<<>>), Chars(<<SP>>), Chars(<<LF, 9>>)}

SectionDocs ==
    UNION {{Kids(n_a, at, ks), Kids(n_c, <<>>, <<Kids(n_a, at, ks)>>)} :
           at \in {<<>>, <<Att(n_p, <<51>>)>>}, ks \in SeqsOf(SectionItems, 1, MaxSections)}

\* texts that start with '<', documents and others, behind a prefix of up to
\* MaxPrefix characters other than '<'
MaxPrefix == 2

PrefixChars == {SP, LF, 120, GT}

Prefixes == SeqsOf(PrefixChars, 0, MaxPrefix)

PrefixedDocs ==
    {Empty(n_a, <<>>), Text(n_a, <<Att(n_p, <<51>>)>>, <<120>>), CData(n_a, <<>>, <<120>>),
     Kids(n_a, <<>>, <<Empty(n_b, <<>>), Text(n_b, <<>>, <<120>>)>>),
     Kids(n_a, <<>>, <<Chars(<<LT, EXCLAM, DASH, DASH, 99, DASH, DASH, GT, 120>>)>>)}

PrefixedPieces ==
    {<<LT, 97>>, <<SP, 112, EQ, SQUOTE, 51, SQUOTE>>, <<GT>>, <<SLASH, GT>>,
     <<LT, SLASH, 97, GT>>, <<LT, EXCLAM, DASH, DASH, 99, DASH, DASH, GT>>, <<120>>}

PrefixedTexts ==
    {Write(d) : d \in PrefixedDocs}
    \cup {Flatten(f) : f \in {g \in SeqsOf(PrefixedPieces, 1, 2) : g[1][1] = LT}}

PrefixDocs == [p : Prefixes, x : PrefixedTexts]

\* texts that are not documents: sequences of 0..MaxTokens opening tags,
\* closing tags with the name, another name and no name, and empty elements;
\* and a few with white space, text, comments and CDATA at the top level
MaxTokens == 4

Open(tag) == Elem(tag, <<>>, "open", <<>>, <<>>)
Close(tag) == Elem(tag, <<>>, "close", <<>>, <<>>)

WriteToken(t) ==
    IF t.kind = "open" THEN <<LT>> \o t.tag \o <<GT>>
    ELSE IF t.kind = "close" THEN <<LT, SLASH>> \o t.tag \o <<GT>>
    ELSE Write(t)

WriteTokens(toks) == Flatten([i \in 1..Len(toks) |-> WriteToken(toks[i])])

Tokens == {Open(n_a), Open(n_b), Close(n_a), Close(n_b), Close(<<>>), Empty(n_b, <<>>)}

CommentC == <<LT, EXCLAM, DASH, DASH, 99, DASH, DASH, GT>>
CDataX == <<LT, EXCLAM, OBRA>> \o T_cdata \o T_x \o T_cdataEnd

TokExtras ==
    {<<Chars(<<SP>>)>>, <<Chars(T_x)>>, <<Chars(CommentC)>>, <<Chars(CDataX)>>,
     <<Chars(T_x), Empty(n_b, <<>>), Chars(<<SP, LF>>)>>,
     <<Empty(n_b, <<>>), Chars(T_x)>>,
     <<Chars(CommentC), Open(n_a), Close(n_a), Chars(CommentC)>>,
     <<Chars(CommentC), Open(n_a), Close(n_a), Chars(CommentC), Empty(n_b, <<>>)>>,
     <<Chars(CDataX), Empty(n_b, <<>>)>>,
     <<Empty(n_b, <<>>), Chars(CDataX)>>,
     <<Open(n_a), Chars(T_x)>>,
     <<Open(n_a), Chars(CDataX)>>,
     <<Empty(n_toString, <<>>)>>,
     <<Open(n_valueOf), Close(n_valueOf)>>,
     <<Open(n_a), Empty(n_constructor, <<>>), Close(n_a)>>}

TokDocs == SeqsOf(Tokens, 0, MaxTokens) \cup TokExtras

\* numeric character references &#N; and &#xH; in the text of an element and
\* in the value of an attribute, H in lower and in upper case, for numbers on
\* both sides of 2^16
RefNumbers == {0, 9, 10, 65, 255, 256, 4095, 55295, 65535, 65536, 65537, 128512, 1114111}

UpperCase(s) == [i \in 1..Len(s) |-> IF s[i] >= 97 /\ s[i] <= 122 THEN s[i] - 32 ELSE s[i]]

CharRef(n, form) ==
    <<AMP, HASH>>
    \o (CASE form = "dec" -> toString(n, 10)
           [] form = "hex" -> <<120>> \o toString(n, 16)
           [] form = "HEX" -> <<120>> \o UpperCase(toString(n, 16)))
    \o <<SEMI>>

RefDoc(r) ==
    IF r.place = "text" THEN Text(n_a, <<>>, CharRef(r.n, r.form))
    ELSE Empty(n_a, <<Att(n_p, CharRef(r.n, r.form))>>)

RefDocs == [n : RefNumbers, form : {"dec", "hex", "HEX"}, place : {"text", "att"}]

\* texts of any kind: the sequences of 0..MaxFrags pieces of markup
MaxFrags == 4

Frags ==
    {<<LT, 97>>, <<SP, 112, EQ, SQUOTE, 51, SQUOTE>>, <<GT>>, <<SLASH, GT>>,
     <<LT, SLASH, 97, GT>>, CommentC, T_x, CDataX}

\* the texts of the "reformatting" test (part_000 158-164), each in one piece
ReformatTexts ==
    {<<<<32, 13, 10, 9, 32, 60, 97, 47, 62, 32, 9>>>>,
     <<<<60, 97, 32, 32, 120, 61, 34, 118, 49, 34, 121, 61, 34, 118, 50, 34, 9, 47, 62>>>>,
     <<<<60, 97, 62, 32, 60, 98, 32, 47, 62, 10, 60, 99, 10, 47, 62, 9, 60, 47, 97, 62>>>>,
     <<<<60, 97, 62, 32, 10, 60, 33, 91, 67, 68, 65, 84, 65, 91, 32, 60, 97, 98, 99, 62, 10, 9, 93, 93, 62, 9, 60, 47, 97, 62>>>>,
     <<<<60, 97, 62, 32, 60, 47, 97, 62>>>>,
     <<<<60, 97, 62, 32, 13, 10, 9, 60, 47, 97, 62>>>>}

FragDocs == SeqsOf(Frags, 0, MaxFrags) \cup ReformatTexts

(***************************************************************************)
(* Trees handed to stringify: strings, null markers, attributed values,    *)
(* CDATA leaves and elements with children, single and repeated.           *)
(***************************************************************************)
CharSamples ==
    {0, 9, 10, 13, 31, 32, 33, 34, 38, 39, 48, 59, 60, 62, 97, 126, 127, 128, 160, 161,
     255, 256, 4095, 4096, 55295, 55296, 57343, 57344, 65533, 65534, 65535}

TreeTexts == {<<ch>> : ch \in CharSamples} \cup SeqsOf({38, 59, 60, 97, 9}, 0, MaxText)

Entry(k, v) == [k |-> k, v |-> v]

TreeAtts ==
    {<<>>, <<Entry(K_attrs, Obj(<<Entry(n_p, Str(<<51>>))>>))>>,
     <<Entry(K_attrs, Obj(<<Entry(n_p, Str(<<34, 60>>)), Entry(n_q, Null)>>))>>}

TreeLeaves ==
    {Null, EmptyObj, Str(<<>>), Str(<<53>>)}
    \cup {Obj(at \o ct) :
            at \in TreeAtts \ {<<>>},
            ct \in {<<>>, <<Entry(K_value, Str(<<>>))>>, <<Entry(K_value, Str(<<53>>))>>,
                    <<Entry(K_cdata, Str(<<60, 120, 62>>))>>}}
    \cup {Obj(<<Entry(K_cdata, Str(<<>>))>>)}

TreeItems == {Null, EmptyObj, Str(<<>>), Str(<<53>>),
              Obj(<<Entry(K_attrs, Obj(<<Entry(n_p, Str(<<51>>))>>)), Entry(K_value, Str(<<54>>))>>)}

TreeNodes ==
    {Str(s) : s \in TreeTexts} \cup TreeLeaves
    \cup {Obj(at \o <<Entry(n_b, Arr(items))>> \o rest) :
            at \in {<<>>, <<Entry(K_attrs, Obj(<<Entry(n_p, Str(<<51>>))>>))>>},
            items \in SeqsOf(TreeItems, 2, MaxKids),
            rest \in {<<>>, <<Entry(n_c, Str(<<55>>))>>}}
    \cup {Obj(<<Entry(n_b, x), Entry(n_c, y)>>) : x \in TreeLeaves, y \in {EmptyObj, Str(<<55>>)}}

TreeDocs == {Obj(<<Entry(n_a, v)>>) : v \in TreeNodes}

\* trees that have a node with a $value and a child: as the root's value,
\* under an element, in a sequence, after a sibling, and the root mapping
MixedNodes ==
    {Obj(at \o <<Entry(K_value, v)>> \o ct \o <<Entry(n_b, kid)>>) :
        at \in {<<>>, <<Entry(K_attrs, Obj(<<Entry(n_p, Str(<<51>>))>>))>>},
        v \in {Str(<<>>), Str(<<53>>), Null},
        ct \in {<<>>, <<Entry(K_cdata, Str(<<60>>))>>},
        kid \in {Str(<<55>>), EmptyObj, Null, Arr(<<Str(<<55>>), Str(<<>>)>>)}}
    \cup {Obj(<<Entry(n_b, Str(<<55>>)), Entry(K_value, Str(<<53>>))>>)}

MixedTrees ==
    UNION {{Obj(<<Entry(n_a, x)>>),
            Obj(<<Entry(n_a, Obj(<<Entry(n_c, x)>>))>>),
            Obj(<<Entry(n_a, Obj(<<Entry(n_c, Arr(<<Str(<<51>>), x>>))>>))>>),
            Obj(<<Entry(n_a, Obj(<<Entry(n_b, Str(<<51>>)), Entry(n_c, x)>>))>>)} :
           x \in MixedNodes}
    \cup {Obj(<<Entry(K_value, Str(<<53>>)), Entry(n_a, Str(<<55>>))>>)}

\* trees stringified with an indentation: the tree of the "indentation" test
\* (part_000 165-170), and values, attributes, CDATA, empty and null elements,
\* alone, under one and two levels of children and in lists
n_d == <<100>>

IndentTest ==
    Obj(<<Entry(n_a, Obj(<<Entry(n_b, Obj(<<Entry(K_attrs, Obj(<<Entry(n_x, Str(<<51>>))>>)),
                                            Entry(K_value, Str(<<53>>))>>)),
                           Entry(n_c, Obj(<<Entry(n_d, EmptyObj)>>))>>))>>)

IndentLeaves ==
    {Str(<<53>>), EmptyObj, Null, Obj(<<Entry(K_cdata, Str(T_x))>>),
     Obj(<<Entry(K_attrs, Obj(<<Entry(n_x, Str(<<51>>))>>)), Entry(K_value, Str(<<53>>))>>)}

IndentKids == IndentLeaves \cup {Obj(<<Entry(n_d, x)>>) : x \in IndentLeaves}

IndentNodes ==
    IndentKids
    \cup {Obj(<<Entry(n_b, x)>>) : x \in IndentKids}
    \cup {Obj(<<Entry(n_b, x), Entry(n_c, y)>>) : x \in IndentLeaves, y \in IndentKids}
    \cup {Obj(<<Entry(n_b, Arr(<<x, y>>))>>) : x, y \in IndentLeaves}

IndentDocs == {IndentTest} \cup {Obj(<<Entry(n_a, x)>>) : x \in IndentNodes}

\* options: none, '', a tab, two spaces
Indents == {Undef, Str(<<>>), Str(<<9>>), Str(<<SP, SP>>)}

(***************************************************************************)
(* revive (js-xml.ts 294-311) and the simplify reviver (revivers.js 3-10). *)
(* A reviver is named: "simplify", or "keyed", a caller's transform that   *)
(* appends the key to a string and returns every other value as it is.     *)
(* revive yields the value and the calls made of the reviver, in order:    *)
(* each with key, val (the argument) and ret, and with at, the keys from   *)
(* the root down to the node, which the code does not have.                *)
(***************************************************************************)
K_xsinil == <<120, 115, 105, 58, 110, 105, 108>>

\* val.k, where val may be any value
Prop(val, k) == IF IsObj(val) THEN Get(val, k) ELSE Undef

\* mutant: $value is looked at before xsi:nil
simplify_valueFirst(key, val) ==
    IF ~Truthy(val) THEN val
    ELSE IF NotNullish(Prop(val, K_value)) THEN Prop(val, K_value)
    ELSE IF Truthy(Prop(val, K_attrs)) /\ Prop(Prop(val, K_attrs), K_xsinil) = V_true
    THEN Null
    ELSE IF NotNullish(Prop(val, K_cdata)) THEN Prop(val, K_cdata)
    ELSE IF IsObj(val)
    THEN IF Len(Del(val, K_attrs).e) > 0 THEN Del(val, K_attrs) ELSE Null
    ELSE IF IsArr(val) /\ Len(val.a) = 0 THEN Null
    ELSE val

simplify(key, val) ==
    IF ~Truthy(val) THEN val
    ELSE IF Truthy(Prop(val, K_attrs)) /\ Prop(Prop(val, K_attrs), K_xsinil) = V_true
    THEN Null
    ELSE IF NotNullish(Prop(val, K_value)) THEN Prop(val, K_value)
    ELSE IF NotNullish(Prop(val, K_cdata)) THEN Prop(val, K_cdata)
    ELSE IF IsObj(val)
    THEN IF Len(Del(val, K_attrs).e) > 0 THEN Del(val, K_attrs) ELSE Null
    ELSE IF IsArr(val) /\ Len(val.a) = 0 THEN Null
    ELSE val

keyed(key, val) == IF IsStr(val) THEN Str(val.s \o key) ELSE val

Revivers == {"simplify", "keyed"}

\* reviver(key, val)
Apply(f, key, val) == IF f = "simplify" THEN simplify(key, val) ELSE keyed(key, val)

\* val with the revived children kids in the place of its own
Rebuilt(val, kids) ==
    IF IsArr(val) THEN Arr([i \in 1..Len(kids) |-> kids[i].v])
    ELSE IF IsObj(val) THEN Obj(kids)
    ELSE val

\* mutant: the reviver is handed the node as it was, not the revived children
Called_unrevived(f, key, val, at, kids) ==
    [val |-> Apply(f, key, val),
     calls |-> Append(kids.calls,
                      [at |-> at, key |-> key, val |-> val, ret |-> Apply(f, key, val)])]

\* return reviver(key, val), val rebuilt from its revived children
Called(f, key, val, at, kids) ==
    [val |-> Apply(f, key, Rebuilt(val, kids.e)),
     calls |-> Append(kids.calls,
                      [at |-> at, key |-> key, val |-> Rebuilt(val, kids.e),
                       ret |-> Apply(f, key, Rebuilt(val, kids.e))])]

Joined(r, k, rest) ==
    [e |-> <<[k |-> k, v |-> r.val]>> \o rest.e, calls |-> r.calls \o rest.calls]

RECURSIVE reviveOne(_, _, _, _)
RECURSIVE reviveEach(_, _, _, _)

\* val.map / Object.keys(val).reduce over the entries es[i..]
reviveEach(f, es, i, at) ==
    IF i > Len(es) THEN [e |-> <<>>, calls |-> <<>>]
    ELSE Joined(reviveOne(f, es[i].k, es[i].v, Append(at, es[i].k)), es[i].k,
                reviveEach(f, es, i + 1, at))

reviveOne(f, key, val, at) ==
    IF IsArr(val) \/ IsObj(val)
    THEN Called(f, key, val, at, reviveEach(f, AsObj(val).e, 1, at))
    ELSE Called(f, key, val, at, [e |-> <<>>, calls |-> <<>>])

\* revive(obj, reviver): "none" is no reviver
revive(obj, f) ==
    IF f = "none" THEN [val |-> obj, calls |-> <<>>]
    ELSE reviveOne(f, <<>>, obj, <<>>)

\* the documents handed to parse with a reviver: the one of the "simplify"
\* test (part_000 242-253) and elements with 1..MaxRevKids children
MaxRevKids == 2

n_atb1 == <<97, 116, 98, 49>>
n_atb2 == <<97, 116, 98, 50>>

RevTest ==
    Kids(n_a, <<Att(n_atb1, <<120>>)>>,
         <<Text(n_b, <<Att(n_atb2, <<121>>)>>, <<51>>), Text(n_c, <<>>, <<52>>),
           Text(n_c, <<Att(n_y, <<51>>)>>, <<53>>), Empty(n_c, <<Att(K_xsinil, V_true.s)>>)>>)

RevLeaves ==
    {Empty(n_b, <<>>), Empty(n_b, <<Att(n_p, <<51>>)>>), Text(n_b, <<>>, <<>>),
     Text(n_c, <<Att(K_xsinil, V_true.s)>>, <<53>>),
     Text(n_c, <<Att(K_xsinil, <<49>>)>>, <<>>),
     CData(n_c, <<Att(n_p, <<51>>)>>, <<60>>), CData(n_b, <<>>, <<>>),
     Kids(n_c, <<>>, <<Text(n_b, <<>>, <<54>>), Empty(n_b, <<>>)>>)}

RevDocs ==
    {RevTest} \cup RevLeaves
    \cup {Kids(n_a, at, ks) : at \in {<<>>, <<Att(n_p, <<51>>)>>},
                              ks \in SeqsOf(RevLeaves, 1, MaxRevKids)}

(***************************************************************************)
(* The state machine: a document is written as text ("xml") or a tree is   *)
(* stringified ("doc"); the text is parsed, one iteration of the scan loop *)
(* per step (documents with character data between elements are "mix",     *)
(* sequences of tags that need not nest "tok",                             *)
(* trees stringified with an indentation "ind",                            *)
(* documents with one numeric character reference "ref",                   *)
(* texts made of pieces of markup in any order "frag",                     *)
(* elements with several CDATA sections "cd",                              *)
(* texts behind a prefix without '<' "pre",                                *)
(* sequences of up to MaxEvents calls made on a builder directly "bld";    *)
(* ev is the number of calls made, the last one and what it threw,         *)
(* documents parsed with a reviver "rev"); the tree parsed is stringified  *)
(* and normalized; the text                                                *)
(* stringify gave is parsed again ("rt" for the documents, as parseTest    *)
(* does, "... again" for the other texts).                               *)
(***************************************************************************)
Unset == [s |-> <<>>, err |-> "unset"]

Init ==
    /\ \/ /\ mode = "xml" /\ src \in XmlDocs /\ str = Write(src) /\ pc = "ready"
          /\ reviver = "none" /\ opts = Undef
       \/ /\ mode = "doc" /\ src \in TreeDocs \cup MixedTrees /\ str = <<>> /\ pc = "doc"
          /\ reviver = "none" /\ opts = Undef
       \/ /\ mode = "mix" /\ src \in MixedDocs /\ str = Write(src) /\ pc = "ready"
          /\ reviver = "none" /\ opts = Undef
       \/ /\ mode = "tok" /\ src \in TokDocs /\ str = WriteTokens(src) /\ pc = "ready"
          /\ reviver = "none" /\ opts = Undef
       \/ /\ mode = "bld" /\ src = Undef /\ str = <<>> /\ pc = "events"
          /\ reviver = "none" /\ opts = Undef
       \/ /\ mode = "ind" /\ src \in IndentDocs /\ str = <<>> /\ pc = "doc"
          /\ reviver = "none" /\ opts \in Indents
       \/ /\ mode = "ref" /\ src \in RefDocs /\ str = Write(RefDoc(src)) /\ pc = "ready"
          /\ reviver = "none" /\ opts = Undef
       \/ /\ mode = "cd" /\ src \in SectionDocs /\ str = Write(src) /\ pc = "ready"
          /\ reviver = "none" /\ opts = Undef
       \/ /\ mode = "pre" /\ src \in PrefixDocs /\ str = src.p \o src.x /\ pc = "ready"
          /\ reviver = "none" /\ opts = Undef
       \/ /\ mode = "frag" /\ src \in FragDocs /\ str = Flatten(src) /\ pc = "ready"
          /\ reviver = "none" /\ opts = Undef
       \/ /\ mode = "rev" /\ src \in RevDocs /\ str = Write(src) /\ pc = "ready"
          /\ reviver \in Revivers /\ opts = Undef
    /\ pos = 0
    /\ bld = BuilderInit
    /\ err = "none"
    /\ tree = Undef
    /\ first = Undef
    /\ out = Unset
    /\ norm = Undef
    /\ calls = <<>>
    /\ raw = Undef
    /\ ev = [n |-> 0, op |-> "none", err |-> "none"]

\* xml = stringify(tree)
Stringify ==
    /\ pc = "doc"
    /\ \E r \in {stringify(src, opts)} :
          IF r.err = "none"
          THEN str' = r.s /\ pc' = "ready" /\ err' = err
          ELSE str' = str /\ pc' = "rejected" /\ err' = r.err
    /\ UNCHANGED <<mode, src, pos, bld, tree, first, out, norm, reviver, calls, raw, opts, ev>>

\* mutant: the scan starts at the first character
ParseBegin_atStart ==
    /\ pc = "ready"
    /\ pos' = 0
    /\ bld' = BuilderInit
    /\ pc' = "scan"
    /\ UNCHANGED <<mode, src, str, err, tree, first, out, norm, reviver, calls, raw, opts, ev>>

\* parse: let pos = str.indexOf('<'), bld = builder(error)
ParseBegin ==
    /\ pc = "ready"
    /\ pos' = IndexOf(str, <<LT>>, 0)
    /\ bld' = BuilderInit
    /\ pc' = "scan"
    /\ UNCHANGED <<mode, src, str, err, tree, first, out, norm, reviver, calls, raw, opts, ev>>

\* one iteration of while (pos < len)
ParseStep ==
    /\ pc = "scan"
    /\ pos < Len(str)
    /\ \E r \in {Iteration(str, pos, bld)} :
          /\ pos' = r.pos
          /\ bld' = r.st
          /\ err' = r.err
          /\ pc' = IF r.err = "none" THEN "scan" ELSE "failed"
    /\ UNCHANGED <<mode, src, str, tree, first, out, norm, reviver, calls, raw, opts, ev>>

\* return revive(bld.getResult(), reviver)
ParseEnd ==
    /\ pc = "scan"
    /\ pos >= Len(str)
    /\ \E r \in {getResult(bld)} :
          IF r.err = "none"
          THEN \E v \in {revive(r.val, reviver)} :
                  /\ tree' = v.val /\ calls' = v.calls /\ raw' = r.val
                  /\ pc' = "parsed" /\ err' = err
          ELSE /\ tree' = tree /\ calls' = calls /\ raw' = raw
               /\ pc' = "failed" /\ err' = r.err
    /\ UNCHANGED <<mode, src, str, pos, bld, first, out, norm, reviver, opts, ev>>

\* jsxml.stringify(jsxml.parse(xml))
Restringify ==
    /\ pc = "parsed"
    /\ reviver = "none"
    /\ out' = stringify(tree, Undef)
    /\ pc' = "printed"
    /\ UNCHANGED <<mode, src, str, pos, bld, err, tree, first, norm, reviver, calls, raw, opts, ev>>

\* jsxml.normalizeNamespaces(jsxml.parse(xml))
Normalize ==
    /\ pc = "printed"
    /\ norm' = normalizeNamespaces(tree)
    /\ pc' = "done"
    /\ UNCHANGED <<mode, src, str, pos, bld, err, tree, first, out, reviver, calls, raw, opts, ev>>

\* the text stringify gave is parsed in its turn
\* the mode of the second parse
Again == [xml |-> "rt", mix |-> "mix again", tok |-> "tok again",
          frag |-> "frag again", ref |-> "ref again", cd |-> "cd again"]

Reparse ==
    /\ pc = "done"
    /\ mode \in DOMAIN Again
    /\ out.err = "none"
    /\ mode' = Again[mode]
    /\ first' = tree
    /\ str' = out.s
    /\ pc' = "ready"
    /\ pos' = 0
    /\ bld' = BuilderInit
    /\ tree' = Undef
    /\ out' = Unset
    /\ norm' = Undef
    /\ raw' = Undef
    /\ UNCHANGED <<src, err, reviver, calls, opts, ev>>

\* the calls a caller can make on a builder (js-xml.ts 85-134); r is the
\* outcome of the call
MaxEvents == 4

Event(op, r) ==
    /\ mode = "bld"
    /\ pc = "events"
    /\ ev.n < MaxEvents
    /\ bld' = r.st
    /\ ev' = [n |-> ev.n + 1, op |-> op, err |-> r.err]
    /\ UNCHANGED <<mode, src, str, pos, pc, err, tree, first, out, norm, reviver, calls, raw, opts>>

BldPush == \E tag \in {n_a, n_b} : Event("push", push(bld, tag))

BldPop == \E tag \in {Undef, Str(n_a), Str(n_b)} : Event("pop", pop(bld, tag))

BldAttribute == \E atb \in {n_p, n_q} : Event("attribute", attribute(bld, atb, <<51>>))

BldValue == \E val \in {<<>>, T_x} : Event("value", value(bld, val))

BldCdata == \E val \in {<<>>, T_x} : Event("cdata", cdata(bld, val))

Next ==
    \/ BldPush
    \/ BldPop
    \/ BldAttribute
    \/ BldValue
    \/ BldCdata
    \/ Stringify
    \/ ParseBegin
    \/ ParseStep
    \/ ParseEnd
    \/ Restringify
    \/ Normalize
    \/ Reparse

Spec == Init /\ [][Next]_vars


(***************************************************************************)
(* What the claims say of a source element, read off the element itself.   *)
(***************************************************************************)
AttsObj(atts) == Obj([i \in 1..Len(atts) |-> Entry(atts[i].n, Str(atts[i].v))])

\* the indices of the children of e with tag t, in document order
Occurrences(e, t) ==
    SelectSeq([i \in 1..Len(e.kids) |-> i], LAMBDA i : e.kids[i].tag = t)

\* the indices of the children of e whose tag occurs there for the first time
FirstOccurrences(e) ==
    SelectSeq([i \in 1..Len(e.kids) |-> i],
              LAMBDA i : \A j \in 1..(i - 1) : e.kids[j].tag # e.kids[i].tag)

\* the tree the data model gives element e: {} for <t/>, the string for
\* <t>s</t>, $ for attributes, $value beside attributes, $cdata, and for
\* children one entry per tag, a sequence when the tag repeats
RECURSIVE Expected(_)
Expected(e) ==
    LET at == IF e.atts = <<>> THEN <<>> ELSE <<Entry(K_attrs, AttsObj(e.atts))>>
        Group(t) ==
            IF Len(Occurrences(e, t)) = 1 THEN Expected(e.kids[Occurrences(e, t)[1]])
            ELSE Arr([k \in 1..Len(Occurrences(e, t)) |->
                        Expected(e.kids[Occurrences(e, t)[k]])])
    IN  CASE e.kind = "empty" -> Obj(at)
          [] e.kind = "text" ->
                IF e.atts = <<>> THEN Str(e.text)
                ELSE Obj(at \o <<Entry(K_value, Str(e.text))>>)
          [] e.kind = "cdata" -> Obj(at \o <<Entry(K_cdata, Str(e.text))>>)
          [] e.kind = "kids" ->
                Obj(at \o [k \in 1..Len(FirstOccurrences(e)) |->
                             Entry(e.kids[FirstOccurrences(e)[k]].tag,
                                   Group(e.kids[FirstOccurrences(e)[k]].tag))])

\* the node that child i of e has in v, the node parsed from e: the entry of
\* its tag, or the element of that entry at the child's rank among its like
KidNode(v, e, i) ==
    LET t == e.kids[i].tag
        x == IF IsObj(v) THEN Get(v, t) ELSE Undef
        rank == Cardinality({j \in 1..i : e.kids[j].tag = t})
    IN  IF Len(Occurrences(e, t)) = 1 THEN x
        ELSE IF IsArr(x) /\ rank <= Len(x.a) THEN x.a[rank]
        ELSE Undef

\* every element of the document e with the node v parsed from it
RECURSIVE Elements(_, _)
Elements(e, v) ==
    {[e |-> e, v |-> v]}
    \cup UNION {Elements(e.kids[i], KidNode(v, e, i)) : i \in 1..Len(e.kids)}

Parsed == pc \in {"parsed", "printed", "done"}

RootNode == IF IsObj(tree) THEN Get(tree, src.tag) ELSE Undef

C4_CData ==
    mode = "xml" /\ src.kind = "cdata" /\ src.atts = <<>> =>
        /\ pc # "failed"
        /\ Parsed =>
              tree = Obj(<<Entry(src.tag, Obj(<<Entry(K_cdata, Str(src.text))>>))>>)
        /\ pc \in {"printed", "done"} => out.err = "none" /\ out.s = str

C4_Witness ==
    /\ mode = "xml"
    /\ pc = "done"
    /\ src = CData(n_a, <<>>, <<38, 108, 116, 59>>)
    /\ Get(Get(tree, n_a), K_cdata) = Str(<<38, 108, 116, 59>>)
    /\ out.s = str

(***************************************************************************)
(* C5.  Escaping: stringify({t: s}) is <t>, the code units of s each       *)
(* written as the claim says, </t>: as itself in 0x20-0x7E but & < > " '   *)
(* and in 0xA1-0xD7FF and 0xE000-0xFFFD, the five as their named entities, *)
(* every other one as &#x..; with lower-case hexadecimal digits padded     *)
(* with zeros to 2 or 4; and parse of that text is {t: s}.                 *)
(***************************************************************************)
HexChar(d) == <<48, 49, 50, 51, 52, 53, 54, 55, 56, 57, 97, 98, 99, 100, 101, 102>>[d + 1]

Hex2or4(ch) ==
    IF ch < 256 THEN <<HexChar(ch \div 16), HexChar(ch % 16)>>
    ELSE <<HexChar(ch \div 4096), HexChar((ch \div 256) % 16),
           HexChar((ch \div 16) % 16), HexChar(ch % 16)>>

Written(ch) ==
    CASE ch = 38 -> <<38, 97, 109, 112, 59>>
      [] ch = 60 -> <<38, 108, 116, 59>>
      [] ch = 62 -> <<38, 103, 116, 59>>
      [] ch = 34 -> <<38, 113, 117, 111, 116, 59>>
      [] ch = 39 -> <<38, 97, 112, 111, 115, 59>>
      [] OTHER ->
           IF \/ ch \in 32..126
              \/ ch \in 161..55295
              \/ ch \in 57344..65533
           THEN <<ch>>
           ELSE <<38, 35, 120>> \o Hex2or4(ch) \o <<59>>

IsText(doc) == Len(doc.e) = 1 /\ IsStr(doc.e[1].v)

C5_Escaping ==
    mode = "doc" /\ IsText(src) =>
        /\ pc \notin {"rejected", "failed"}
        /\ pc # "doc" =>
              str = <<LT>> \o src.e[1].k \o <<GT>>
                    \o Flatten([i \in 1..Len(src.e[1].v.s) |-> Written(src.e[1].v.s[i])])
                    \o <<LT, SLASH>> \o src.e[1].k \o <<GT>>
        /\ Parsed => tree = src

C5_Witness ==
    /\ mode = "doc"
    /\ pc = "done"
    /\ src = Obj(<<Entry(n_a, Str(<<9, 38>>))>>)
    /\ tree = src
    /\ str = <<60, 97, 62, 38, 35, 120, 48, 57, 59, 38, 97, 109, 112, 59, 60, 47, 97, 62>>

(***************************************************************************)
(* Namespaces as the claims state them, read off the source document: the  *)
(* declarations in scope of an element are those of its ancestors          *)
(* overridden by its own, wherever among its attributes they are written.  *)
(***************************************************************************)
Range(f) == {f[i] : i \in DOMAIN f}

IsDecl(n) == n = T_xmlns \/ (Len(n) > 6 /\ SubSeq(n, 1, 6) = T_xmlns \o <<COLON>>)

DeclPrefix(n) == IF n = T_xmlns THEN <<>> ELSE SubSeq(n, 7, Len(n))

RECURSIVE InScope(_, _, _)
InScope(ns, atts, i) ==
    IF i > Len(atts) THEN ns
    ELSE InScope(IF IsDecl(atts[i].n) THEN Put(ns, DeclPrefix(atts[i].n), Str(atts[i].v))
                 ELSE ns,
                 atts, i + 1)

ColonAt(n) == IF \E i \in 1..Len(n) : n[i] = COLON
              THEN CHOOSE i \in 1..Len(n) : n[i] = COLON /\ \A j \in 1..(i - 1) : n[j] # COLON
              ELSE 0

Prefixed(n) == ColonAt(n) > 1 /\ ColonAt(n) < Len(n)

Uri(ns, p) == IF Has(ns, p) THEN Get(ns, p).s ELSE <<>>

\* uri|local of the prefixed name n
Qualified(ns, n) ==
    Uri(ns, SubSeq(n, 1, ColonAt(n) - 1)) \o <<BAR>> \o SubSeq(n, ColonAt(n) + 1, Len(n))

\* the name of an element: a name without prefix is in the default namespace
TagName(ns, n) ==
    IF Prefixed(n) THEN Qualified(ns, n)
    ELSE IF Has(ns, <<>>) THEN Uri(ns, <<>>) \o <<BAR>> \o n
    ELSE n

\* the name of an attribute: a name without prefix is in no namespace
AttName(ns, n) == IF Prefixed(n) THEN Qualified(ns, n) ELSE n

\* every element of the document e: the node v parsed from it, the
\* declarations ns of its ancestors, own with its own, and the names from
\* the root down to it
RECURSIVE NsElements(_, _, _, _)
NsElements(e, v, ns, path) ==
    {[e |-> e, v |-> v, ns |-> ns, own |-> InScope(ns, e.atts, 1),
      path |-> Append(path, TagName(InScope(ns, e.atts, 1), e.tag))]}
    \cup UNION {NsElements(e.kids[i], KidNode(v, e, i), InScope(ns, e.atts, 1),
                           Append(path, TagName(InScope(ns, e.atts, 1), e.tag))) :
                i \in 1..Len(e.kids)}

Items(v) == IF IsArr(v) THEN Range(v.a) ELSE {v}

ChildIndices(o) == {i \in 1..Len(o.e) : CharCodeAt(o.e[i].k, 0) # 36}

\* the names from the root down to each element of the normalized tree o
RECURSIVE OutPaths(_, _)
OutPaths(o, path) ==
    IF ~IsObj(o) THEN {}
    ELSE UNION {{Append(path, o.e[i].k)}
                \cup UNION {OutPaths(x, Append(path, o.e[i].k)) : x \in Items(o.e[i].v)} :
                i \in ChildIndices(o)}

\* <<path of the element, name, value>> of each attribute of the tree o
RECURSIVE OutAtts(_, _)
OutAtts(o, path) ==
    IF ~IsObj(o) THEN {}
    ELSE (IF IsObj(Get(o, K_attrs))
          THEN {<<path, a.k, a.v>> : a \in Range(Get(o, K_attrs).e)}
          ELSE {})
         \cup UNION {UNION {OutAtts(x, Append(path, o.e[i].k)) : x \in Items(o.e[i].v)} :
                     i \in ChildIndices(o)}

Normalized == mode = "xml" /\ pc = "done"

SrcElements == NsElements(src, RootNode, EmptyObj, <<>>)

NonDecl(e) == {i \in 1..Len(e.atts) : ~IsDecl(e.atts[i].n)}

(***************************************************************************)
(* C6.  Namespace resolution: in normalizeNamespaces(parse(x)) an element  *)
(* written prefix:local is stored as uri|local and an attribute written    *)
(* prefix:local is named uri|local, uri being what the nearest declaration *)
(* of the prefix, on the element itself or on an ancestor, binds; no       *)
(* xmlns or xmlns:prefix attribute is left; the declaration counts for an  *)
(* attribute of its element that is written before it; and the output has *)
(* no element besides those of the document.                               *)
(***************************************************************************)
C6_Resolution ==
    Normalized =>
        /\ \A a \in OutAtts(norm, <<>>) : ~IsDecl(a[2])
        /\ \A c \in SrcElements :
              /\ Prefixed(c.e.tag) => c.path \in OutPaths(norm, <<>>)
              /\ \A i \in NonDecl(c.e) :
                    Prefixed(c.e.atts[i].n) =>
                        <<c.path, Qualified(c.own, c.e.atts[i].n), Str(c.e.atts[i].v)>>
                            \in OutAtts(norm, <<>>)
        /\ \A p \in OutPaths(norm, <<>>) : \E c \in SrcElements : c.path = p

\* x:a has x:p before its own declaration of x, which overrides the root's
C6_Witness ==
    /\ Normalized
    /\ src.tag = n_t
    /\ Uri(InScope(EmptyObj, src.atts, 1), n_x) = u_abc
    /\ \E c \in SrcElements :
          /\ c.e.tag = n_xa
          /\ c.e.atts # <<>>
          /\ c.e.atts[1].n = n_xp
          /\ c.path = <<n_t, u_def \o <<BAR>> \o n_a>>
          /\ c.path \in OutPaths(norm, <<>>)
          /\ <<c.path, u_def \o <<BAR>> \o n_p, Str(<<52>>)>> \in OutAtts(norm, <<>>)

(***************************************************************************)
(* C7.  Default namespace: an element written without prefix, with         *)
(* xmlns="uri" on itself or nearest on an ancestor, is stored as uri|name, *)
(* and under its bare name when no default namespace is in scope; an       *)
(* attribute written without prefix keeps its bare name whatever the       *)
(* default namespace; the output has no attribute besides these and the    *)
(* prefixed ones.                                                          *)
(***************************************************************************)
C7_Default ==
    Normalized =>
        /\ \A c \in SrcElements :
              /\ ~Prefixed(c.e.tag) =>
                    /\ c.path \in OutPaths(norm, <<>>)
                    /\ c.path[Len(c.path)] =
                          IF Has(c.own, <<>>) THEN Uri(c.own, <<>>) \o <<BAR>> \o c.e.tag
                          ELSE c.e.tag
              /\ \A i \in NonDecl(c.e) :
                    ~Prefixed(c.e.atts[i].n) =>
                        <<c.path, c.e.atts[i].n, Str(c.e.atts[i].v)>> \in OutAtts(norm, <<>>)
        /\ \A a \in OutAtts(norm, <<>>) :
              \E c \in SrcElements : \E i \in NonDecl(c.e) :
                 a = <<c.path, AttName(c.own, c.e.atts[i].n), Str(c.e.atts[i].v)>>

\* the root declares the default namespace and has the attribute p; a child
\* b overrides the default for itself and its child a
C7_Witness ==
    /\ Normalized
    /\ src.tag = n_t
    /\ Has(InScope(EmptyObj, src.atts, 1), <<>>)
    /\ <<<<u_abc \o <<BAR>> \o n_t>>, n_p, Str(<<51>>)>> \in OutAtts(norm, <<>>)
    /\ <<u_abc \o <<BAR>> \o n_t, u_def \o <<BAR>> \o n_b, u_def \o <<BAR>> \o n_a>>
          \in OutPaths(norm, <<>>)
    /\ <<u_abc \o <<BAR>> \o n_t, u_abc \o <<BAR>> \o n_a>> \in OutPaths(norm, <<>>)

(***************************************************************************)
(* The children of one element in the normalized tree.  Child i alone is   *)
(* normalized to Kid(c, i), a name and a value; the claims say how the     *)
(* values of the children of one name stand in the entry of that name.     *)
(***************************************************************************)
Kid(c, i) == _normalizeNamespaces(KidNode(c.v, c.e, i), c.own, Str(c.e.kids[i].tag))

\* what element c is normalized to: for the root, what norm holds
Output(c) ==
    IF Len(c.path) = 1
    THEN IF IsObj(norm) THEN Get(norm, c.path[1]) ELSE Undef
    ELSE _normalizeNamespaces(c.v, c.ns, Str(c.e.tag)).val

\* the values the entry of name holds, a sequence also when it is one value
Stored(c, name) ==
    LET x == IF IsObj(Output(c)) THEN Get(Output(c), name) ELSE Undef
    IN  IF x = Undef THEN <<>> ELSE IF IsArr(x) THEN x.a ELSE <<x>>

KidNames(c) == {Kid(c, i).name.s : i \in 1..Len(c.e.kids)}

\* the children of c that resolve to name, in document order
Resolving(c, name) ==
    SelectSeq([i \in 1..Len(c.e.kids) |-> i], LAMBDA i : Kid(c, i).name.s = name)

\* their values in document order
InDocumentOrder(c, name) ==
    [k \in 1..Len(Resolving(c, name)) |-> Kid(c, Resolving(c, name)[k]).val]

\* their values grouped by written tag, the tags in the order they first
\* appear under c, each group in document order
InGroups(c, name) ==
    Flatten([g \in 1..Len(FirstOccurrences(c.e)) |->
               LET t == c.e.kids[FirstOccurrences(c.e)[g]].tag
                   of == SelectSeq(Resolving(c, name), LAMBDA i : c.e.kids[i].tag = t)
               IN  [k \in 1..Len(of) |-> Kid(c, of[k]).val]])

\* the children of c that resolve to name are all written with one tag
OneTag(c, name) ==
    \A k \in 1..Len(Resolving(c, name)) :
       c.e.kids[Resolving(c, name)[k]].tag = c.e.kids[Resolving(c, name)[1]].tag

\* s is t without some of its elements
RECURSIVE IsSubseq(_, _)
IsSubseq(s, t) ==
    IF s = <<>> THEN TRUE
    ELSE IF t = <<>> THEN FALSE
    ELSE IF Head(s) = Head(t) THEN IsSubseq(Tail(s), Tail(t))
    ELSE IsSubseq(s, Tail(t))

C10_NoChildLost ==
    Normalized =>
        \A c \in SrcElements : \A name \in KidNames(c) :
           Len(Stored(c, name)) = Len(Resolving(c, name))

(***************************************************************************)
(* Scoping.  Each element of a document with its place (the indices from   *)
(* the root down to it) and the names from the root down to it; and the    *)
(* document without the declarations of the element at a place.            *)
(***************************************************************************)
RECURSIVE Located(_, _, _, _)
Located(e, ns, path, at) ==
    {[e |-> e, at |-> at, own |-> InScope(ns, e.atts, 1),
      path |-> Append(path, TagName(InScope(ns, e.atts, 1), e.tag))]}
    \cup UNION {Located(e.kids[i], InScope(ns, e.atts, 1),
                        Append(path, TagName(InScope(ns, e.atts, 1), e.tag)),
                        Append(at, i)) :
                i \in 1..Len(e.kids)}

RECURSIVE WithoutDeclarations(_, _)
WithoutDeclarations(e, at) ==
    IF at = <<>> THEN [e EXCEPT !.atts = SelectSeq(e.atts, LAMBDA a : ~IsDecl(a.n))]
    ELSE [e EXCEPT !.kids[Head(at)] = WithoutDeclarations(e.kids[Head(at)], Tail(at))]

Declares(e) == \E i \in 1..Len(e.atts) : IsDecl(e.atts[i].n)

\* the place at is that of the element at place top or of one inside it
Inside(at, top) == Len(top) <= Len(at) /\ SubSeq(at, 1, Len(top)) = top

(***************************************************************************)
(* C11.  Scoping: for every element E that declares a namespace, every     *)
(* element outside E's subtree (ancestor, sibling before or after,         *)
(* anything after E's subtree) and each of its attributes is stored under  *)
(* the name it has in the document without E's declarations; so a prefix   *)
(* or default namespace that E shadows has its outer binding again after   *)
(* E's subtree.                                                            *)
(***************************************************************************)
C11_Scoping ==
    Normalized =>
        \A E \in Located(src, EmptyObj, <<>>, <<>>) :
           Declares(E.e) =>
              \A X \in Located(WithoutDeclarations(src, E.at), EmptyObj, <<>>, <<>>) :
                 ~Inside(X.at, E.at) =>
                    /\ X.path \in OutPaths(norm, <<>>)
                    /\ \A i \in NonDecl(X.e) :
                          <<X.path, AttName(X.own, X.e.atts[i].n), Str(X.e.atts[i].v)>>
                             \in OutAtts(norm, <<>>)

\* under a root that binds x to abc and the default namespace to abc: b
\* shadows the default namespace, x:a shadows x, and the a and x:a after them
\* are in abc
C11_Witness ==
    /\ Normalized
    /\ src.tag = n_t
    /\ Len(src.kids) = 3
    /\ Has(InScope(EmptyObj, src.atts, 1), <<>>)
    /\ src.kids[1].tag = n_b /\ Declares(src.kids[1])
    /\ src.kids[2].tag = n_xa /\ Declares(src.kids[2])
    /\ src.kids[3] = Text(n_xa, <<>>, <<50>>)
    /\ Get(Get(norm, u_abc \o <<BAR>> \o n_t), u_abc \o <<BAR>> \o n_a) = Str(<<50>>)
    /\ <<u_abc \o <<BAR>> \o n_t, u_def \o <<BAR>> \o n_b, u_def \o <<BAR>> \o n_a>>
          \in OutPaths(norm, <<>>)

(***************************************************************************)
(* C12.  simplify: for a mapping it returns the null marker when the       *)
(* attribute map has xsi:nil = "true"; else $value when there is one; else *)
(* $cdata when there is one; else the mapping without its attribute map,   *)
(* or the null marker when nothing is left of it.  As the reviver of parse *)
(* it turns the document of the test into {a: {b: '3', c: ['4','5',null]}}.*)
(***************************************************************************)
WithoutAttributes(val) == SelectSeq(val.e, LAMBDA x : x.k # K_attrs)

Simplified(val) ==
    IF /\ Has(val, K_attrs)
       /\ IsObj(Get(val, K_attrs))
       /\ Get(Get(val, K_attrs), K_xsinil) = Str(<<116, 114, 117, 101>>)
    THEN Null
    ELSE IF Has(val, K_value) THEN Get(val, K_value)
    ELSE IF Has(val, K_cdata) THEN Get(val, K_cdata)
    ELSE IF WithoutAttributes(val) = <<>> THEN Null
    ELSE Obj(WithoutAttributes(val))

C12_Simplify ==
    reviver = "simplify" /\ Parsed =>
        /\ \A i \in 1..Len(calls) :
              IsObj(calls[i].val) => calls[i].ret = Simplified(calls[i].val)
        /\ src = RevTest =>
              tree = Obj(<<Entry(n_a,
                         Obj(<<Entry(n_b, Str(<<51>>)),
                               Entry(n_c, Arr(<<Str(<<52>>), Str(<<53>>), Null>>))>>))>>)

C12_Witness ==
    /\ reviver = "simplify"
    /\ pc = "parsed"
    /\ src = RevTest
    /\ Get(Get(tree, n_a), n_c) = Arr(<<Str(<<52>>), Str(<<53>>), Null>>)
    /\ \E i \in 1..Len(calls) :
          /\ calls[i].val = Obj(<<Entry(K_attrs, Obj(<<Entry(n_y, Str(<<51>>))>>)),
                                  Entry(K_value, Str(<<53>>))>>)
          /\ calls[i].ret = Str(<<53>>)

(***************************************************************************)
(* C13.  Reviver order: the reviver is called exactly once for every node  *)
(* of the tree (the root, every entry value, every sequence element) and   *)
(* for a node after all the nodes inside it; the key is the field name,    *)
(* the decimal index for a sequence element, '' for the root; the value    *)
(* handed over is the node with each child replaced by what the reviver    *)
(* returned for it; and revive returns what the reviver returned for the   *)
(* root.                                                                   *)
(***************************************************************************)
RECURSIVE Decimal(_)
Decimal(n) == IF n < 10 THEN <<48 + n>> ELSE Decimal(n \div 10) \o <<48 + (n % 10)>>

\* the children of a node, each with its key
KidsOf(v) ==
    IF IsObj(v) THEN v.e
    ELSE IF IsArr(v) THEN [i \in 1..Len(v.a) |-> Entry(Decimal(i - 1), v.a[i])]
    ELSE <<>>

\* every node of the tree v with its place, the keys from the root down
RECURSIVE Nodes(_, _)
Nodes(v, at) ==
    {[at |-> at, v |-> v]}
    \cup UNION {Nodes(KidsOf(v)[i].v, Append(at, KidsOf(v)[i].k)) : i \in 1..Len(KidsOf(v))}

CallAt(at) == CHOOSE i \in 1..Len(calls) : calls[i].at = at

Returned(at) == calls[CallAt(at)].ret

\* the node n with what the reviver returned for its children
WithReturned(n) ==
    IF IsObj(n.v)
    THEN Obj([i \in 1..Len(n.v.e) |-> Entry(n.v.e[i].k, Returned(Append(n.at, n.v.e[i].k)))])
    ELSE IF IsArr(n.v)
    THEN Arr([i \in 1..Len(n.v.a) |-> Returned(Append(n.at, Decimal(i - 1)))])
    ELSE n.v

C13_ReviverOrder ==
    reviver # "none" /\ Parsed =>
        /\ Len(calls) = Cardinality(Nodes(raw, <<>>))
        /\ \A n \in Nodes(raw, <<>>) : \E i \in 1..Len(calls) : calls[i].at = n.at
        /\ \A i, j \in 1..Len(calls) :
              Inside(calls[j].at, calls[i].at) /\ calls[j].at # calls[i].at => j < i
        /\ \A n \in Nodes(raw, <<>>) :
              /\ calls[CallAt(n.at)].key = IF n.at = <<>> THEN <<>> ELSE n.at[Len(n.at)]
              /\ calls[CallAt(n.at)].val = WithReturned(n)
        /\ tree = Returned(<<>>)

\* the second c of the test document: a sequence element, key '1', handed
\* over with its $value already revived; and the sequence after its elements
C13_Witness ==
    /\ reviver = "keyed"
    /\ pc = "parsed"
    /\ src = RevTest
    /\ \E i, j \in 1..Len(calls) :
          /\ i < j
          /\ calls[i].at = <<n_a, n_c, <<49>>>>
          /\ calls[i].key = <<49>>
          /\ Get(calls[i].val, K_value) = Str(<<53>> \o K_value)
          /\ calls[j].at = <<n_a, n_c>>
          /\ IsArr(calls[j].val)
    /\ tree = calls[Len(calls)].ret

(***************************************************************************)
(* C14.  stringify of a tree that has, at any depth, a node with a $value  *)
(* and a key that does not start with '$' raises an error and gives no     *)
(* text.                                                                   *)
(***************************************************************************)
IsChildKey(k) == k = <<>> \/ k[1] # 36

\* the nodes under v: the values of its child keys, the elements of a sequence
Under(v) ==
    IF IsArr(v) THEN Range(v.a)
    ELSE IF IsObj(v) THEN {x.v : x \in {y \in Range(v.e) : IsChildKey(y.k)}}
    ELSE {}

RECURSIVE HasValueAndChild(_)
HasValueAndChild(v) ==
    \/ /\ IsObj(v)
       /\ \E x \in Range(v.e) : x.k = K_value
       /\ \E x \in Range(v.e) : IsChildKey(x.k)
    \/ \E x \in Under(v) : HasValueAndChild(x)

C14_ValueAndChild ==
    mode = "doc" /\ HasValueAndChild(src) =>
        /\ pc \in {"doc", "rejected"}
        /\ pc = "rejected" => err # "none" /\ str = <<>>

\* the node is the second element of a sequence, two levels under the root
C14_Witness ==
    /\ mode = "doc"
    /\ pc = "rejected"
    /\ err # "none"
    /\ src = Obj(<<Entry(n_a, Obj(<<Entry(n_c,
                 Arr(<<Str(<<51>>),
                       Obj(<<Entry(K_value, Str(<<53>>)), Entry(n_b, Str(<<55>>))>>)>>))>>))>>)

(***************************************************************************)
(* C15.  parse raises an error for every document that has an element      *)
(* whose content holds character data with a character that is not white   *)
(* space together with a child element, the data standing before the       *)
(* child, between two children or after the last one.                      *)
(***************************************************************************)
\* character data with a character other than space, tab, CR and LF
NonWhite(e) == e.kind = "chars" /\ \E i \in 1..Len(e.text) : e.text[i] \notin {32, 9, 13, 10}

RECURSIVE HasMixedContent(_)
HasMixedContent(e) ==
    /\ e.kind = "kids"
    /\ \/ /\ \E i \in 1..Len(e.kids) : NonWhite(e.kids[i])
          /\ \E i \in 1..Len(e.kids) : e.kids[i].kind # "chars"
       \/ \E i \in 1..Len(e.kids) : HasMixedContent(e.kids[i])

Raised == pc = "failed" /\ err # "none" /\ tree = Undef

C15_MixedContent ==
    mode = "mix" /\ HasMixedContent(src) =>
        \/ pc \in {"ready", "scan"}
        \/ Raised

\* the data stands between two children of an element under the root
C15_Witness ==
    /\ mode = "mix"
    /\ Raised
    /\ src = Kids(n_c, <<Att(n_p, <<51>>)>>,
                  <<Kids(n_a, <<>>, <<Empty(n_b, <<>>), Chars(T_x), Empty(n_b, <<>>)>>)>>)

\* the data stands before the only child
C15_WitnessBefore ==
    /\ mode = "mix"
    /\ Raised
    /\ src = Kids(n_a, <<>>, <<Chars(<<SP>> \o T_x), Empty(n_b, <<>>)>>)

\* the data stands after the last child
C15_WitnessAfter ==
    /\ mode = "mix"
    /\ Raised
    /\ src = Kids(n_a, <<>>, <<Empty(n_b, <<>>), Kids(n_b, <<>>, <<Empty(n_c, <<>>)>>), Chars(T_x)>>)

\* white space between the children is no error
C15_WitnessWhite ==
    /\ mode = "mix"
    /\ Parsed
    /\ src = Kids(n_a, <<>>, <<Empty(n_b, <<>>), Chars(<<SP>>), Empty(n_b, <<>>)>>)

(***************************************************************************)
(* C16.  parse returns a result only for a text with exactly one top-level *)
(* element and every opened tag closed; the result is then a mapping with  *)
(* one key, the root's tag, bound to one node and never to a sequence.  A  *)
(* text with no top-level element, with two or more, or with a tag left    *)
(* open raises an error.                                                   *)
(***************************************************************************)
Delta(t) == IF t.kind = "open" THEN 1 ELSE IF t.kind = "close" THEN -1 ELSE 0

\* the number of elements open after the first i tokens
RECURSIVE DepthAfter(_, _)
DepthAfter(toks, i) == IF i = 0 THEN 0 ELSE DepthAfter(toks, i - 1) + Delta(toks[i])

\* the tokens that start an element at the top level
TopLevel(toks) ==
    {i \in 1..Len(toks) : toks[i].kind \in {"open", "empty"} /\ DepthAfter(toks, i - 1) = 0}

AllClosed(toks) == DepthAfter(toks, Len(toks)) = 0

SingleNode(t, tag) ==
    /\ IsObj(t)
    /\ Len(t.e) = 1
    /\ t.e[1].k = tag
    /\ IsStr(t.e[1].v) \/ IsObj(t.e[1].v)

C16_SingleRoot ==
    /\ mode = "tok" /\ Parsed =>
          /\ Cardinality(TopLevel(src)) = 1
          /\ AllClosed(src)
          /\ \A i \in TopLevel(src) : SingleNode(tree, src[i].tag)
    /\ mode = "tok" /\ (Cardinality(TopLevel(src)) # 1 \/ ~AllClosed(src)) =>
          \/ pc \in {"ready", "scan"}
          \/ Raised
    /\ mode \in {"xml", "mix"} /\ Parsed => SingleNode(tree, src.tag)

\* the same for the texts whose tags are not names of Object.prototype
C16_OwnNames ==
    mode # "tok" \/ (\A i \in 1..Len(src) : src[i].tag \notin ObjectPrototype) => C16_SingleRoot

\* the root toString is bound to a sequence: the inherited function and the node
C16_Inherited ==
    /\ mode = "tok"
    /\ Parsed
    /\ src = <<Empty(n_toString, <<>>)>>
    /\ tree = Obj(<<Entry(n_toString, Arr(<<Fn, EmptyObj>>))>>)

\* two top-level elements
C16_Witness ==
    /\ mode = "tok"
    /\ Raised
    /\ src = <<Open(n_a), Close(n_a), Empty(n_b, <<>>)>>

\* no element at all, in the empty text and in a comment
C16_WitnessNone ==
    /\ mode = "tok"
    /\ Raised
    /\ src \in {<<>>, <<Chars(CommentC)>>}
    /\ str = <<>> \/ err = "root tag not found"

\* a tag left open
C16_WitnessOpen ==
    /\ mode = "tok"
    /\ Raised
    /\ err = "tag not closed"
    /\ src = <<Open(n_a), Open(n_b), Close(n_b)>>

\* one element between comments is returned
C16_WitnessOne ==
    /\ mode = "tok"
    /\ Parsed
    /\ src = <<Chars(CommentC), Open(n_a), Close(n_a), Chars(CommentC)>>
    /\ tree = Obj(<<Entry(n_a, Str(<<>>))>>)

(***************************************************************************)
(* C18.  When parse meets a closing tag with a name, it raises an error    *)
(* unless the name is the tag of the innermost element still open; on a    *)
(* match exactly one level is closed.  A closing tag met when no element   *)
(* is open raises an error.                                                *)
(***************************************************************************)
\* the number of tokens of src that lie before pos
Consumed == {i \in 0..Len(src) : Len(WriteTokens(SubSeq(src, 1, i))) = pos}

\* the tags of the elements open after the first i tokens, innermost last
RECURSIVE OpenAfter(_, _)
OpenAfter(toks, i) ==
    IF i = 0 THEN <<>>
    ELSE LET open == OpenAfter(toks, i - 1)
         IN  IF toks[i].kind = "open" THEN Append(open, toks[i].tag)
             ELSE IF toks[i].kind = "close" /\ open # <<>>
             THEN SubSeq(open, 1, Len(open) - 1)
             ELSE open

\* the tags of the elements open in the builder, innermost last
OpenTags(st) == [i \in 1..(Len(st) - 1) |-> Get(st[i + 1], K_tag).s]

\* the step that reads the closing tag src[i + 1]
ClosingStep(i) ==
    LET open == OpenAfter(src, i)
        tag == src[i + 1].tag
    IN  IF open = <<>> \/ (tag # <<>> /\ tag # open[Len(open)])
        THEN pc' = "failed" /\ err' # "none" /\ bld' = bld
        ELSE /\ pc' = "scan"
             /\ err' = "none"
             /\ OpenTags(bld') = SubSeq(open, 1, Len(open) - 1)

C18_Nesting ==
    [][mode = "tok" /\ pc = "scan" /\ pos < Len(str) =>
          \A i \in Consumed :
              i < Len(src) /\ src[i + 1].kind = "close" =>
                  /\ OpenTags(bld) = OpenAfter(src, i)
                  /\ ClosingStep(i)]_vars

\* </b> closes b, then the second </b> meets a
C18_Witness ==
    /\ mode = "tok"
    /\ src = <<Open(n_a), Open(n_b), Close(n_b), Close(n_b)>>
    /\ Raised
    /\ err = "closing tag mismatch"
    /\ OpenTags(bld) = <<n_a>>

\* a closing tag after the root is closed
C18_WitnessNoneOpen ==
    /\ mode = "tok"
    /\ src = <<Open(n_a), Close(n_a), Close(n_a)>>
    /\ Raised
    /\ OpenTags(bld) = <<>>

(***************************************************************************)
(* C17.  No node of a tree parse returns (without reviver) carries more    *)
(* than one of a value, a CDATA payload and child elements.  In any        *)
(* sequence of builder calls, push on a node that holds CDATA or a value,  *)
(* and value or cdata on a node that has children, raise an error and      *)
(* leave the node as it was.                                               *)
(***************************************************************************)
HoldsValue(v) == \E x \in Range(v.e) : x.k = K_value /\ x.v \notin {Null, Undef}
HoldsCData(v) == \E x \in Range(v.e) : x.k = K_cdata /\ x.v \notin {Null, Undef}
HasChildren(v) == \E x \in Range(v.e) : IsChildKey(x.k)

Unmixed(v) ==
    /\ ~(HoldsValue(v) /\ HoldsCData(v))
    /\ ~(HoldsValue(v) /\ HasChildren(v))
    /\ ~(HoldsCData(v) /\ HasChildren(v))

RECURSIVE AllUnmixed(_)
AllUnmixed(v) ==
    /\ IsObj(v) => Unmixed(v)
    /\ \A x \in Under(v) : AllUnmixed(x)

\* the element the builder is at
Current == bld[Len(bld)]

Refused == ev'.err # "none" /\ bld' = bld

C17_Mixing ==
    /\ [](Parsed /\ reviver = "none" => AllUnmixed(tree))
    /\ [](mode = "bld" => \A i \in 1..Len(bld) : AllUnmixed(bld[i]))
    /\ [][mode = "bld" /\ ev'.n = ev.n + 1 =>
             /\ ev'.op = "push" /\ (HoldsCData(Current) \/ HoldsValue(Current)) => Refused
             /\ ev'.op \in {"value", "cdata"} /\ HasChildren(Current) => Refused]_vars

\* value after push and pop has been refused: the root a has a child b
C17_Witness ==
    /\ mode = "bld"
    /\ ev = [n |-> 4, op |-> "value", err |-> "cannot mix children and value"]
    /\ OpenTags(bld) = <<n_a>>
    /\ HasChildren(Current)
    /\ ~HoldsValue(Current)

\* push after cdata('') has been refused
C17_WitnessPush ==
    /\ mode = "bld"
    /\ ev = [n |-> 3, op |-> "push", err |-> "cannot mix CDATA and children"]
    /\ OpenTags(bld) = <<n_b>>
    /\ Get(Current, K_cdata) = Str(<<>>)
    /\ ~HasChildren(Current)

\* a parsed tree with a value and children on different nodes
C17_WitnessParsed ==
    /\ mode = "xml"
    /\ Parsed
    /\ IsObj(tree.e[1].v)
    /\ \E x, z \in Range(tree.e[1].v.e) :
          IsObj(x.v) /\ IsObj(z.v) /\ HoldsValue(x.v) /\ HasChildren(z.v)

(***************************************************************************)
(* C19.  No node at any depth of a tree parse returns has a $tag, $parent, *)
(* $childCount or $index field.                                            *)
(***************************************************************************)
Bookkeeping == {K_tag, K_parent, K_childCount, K_index}

RECURSIVE NoBookkeeping(_)
NoBookkeeping(v) ==
    IF IsObj(v)
    THEN \A x \in Range(v.e) : x.k \notin Bookkeeping /\ NoBookkeeping(x.v)
    ELSE IF IsArr(v) THEN \A x \in Range(v.a) : NoBookkeeping(x)
    ELSE TRUE

C19_NoBookkeeping == Parsed => NoBookkeeping(tree) /\ (raw # Undef => NoBookkeeping(raw))

\* the second and third b had an $index, the third a $childCount of 2
C19_Witness ==
    /\ mode = "xml"
    /\ Parsed
    /\ tree = Obj(<<Entry(n_a, Obj(<<Entry(n_b,
                Arr(<<Str(<<51>>), EmptyObj,
                      Obj(<<Entry(n_c, Arr(<<Str(<<54>>), Str(<<>>)>>))>>)>>))>>))>>)

(***************************************************************************)
(* C20.  With no indent, or an empty one, stringify inserts no white       *)
(* space.  With a non-empty indent I the text has a newline and I repeated *)
(* depth times before every opening tag but the root's and before the      *)
(* closing tag of every element that has element children, and nowhere     *)
(* else.                                                                   *)
(***************************************************************************)
\* the indent asked for
Asked == IF IsStr(opts) THEN opts.s ELSE <<>>

Margin(I, d) == IF I = <<>> THEN <<>> ELSE <<LF>> \o Repeat(I, d)

PrettyAtts(v) ==
    IF Has(v, K_attrs)
    THEN Flatten([i \in 1..Len(Get(v, K_attrs).e) |->
                    <<SP>> \o Get(v, K_attrs).e[i].k \o <<EQ, DQUOTE>>
                    \o Get(v, K_attrs).e[i].v.s \o <<DQUOTE>>])
    ELSE <<>>

ChildEntries(v) == SelectSeq(v.e, LAMBDA x : IsChildKey(x.k))

\* the text the claim describes for v under tag at depth d; cd is what stands
\* between a CDATA section and the closing tag
RECURSIVE Pretty(_, _, _, _, _)
Pretty(v, tag, d, I, cd) ==
    IF IsArr(v) THEN Flatten([i \in 1..Len(v.a) |-> Pretty(v.a[i], tag, d, I, cd)])
    ELSE (IF d = 0 THEN <<>> ELSE Margin(I, d)) \o <<LT>> \o tag \o
         (IF v = Null THEN <<SP>> \o K_nil \o <<EQ, DQUOTE>> \o V_true.s \o <<DQUOTE, SLASH, GT>>
          ELSE IF IsStr(v) THEN <<GT>> \o v.s \o <<LT, SLASH>> \o tag \o <<GT>>
          ELSE PrettyAtts(v) \o
               (IF Has(v, K_value)
                THEN <<GT>> \o Get(v, K_value).s \o <<LT, SLASH>> \o tag \o <<GT>>
                ELSE IF Has(v, K_cdata)
                THEN <<GT, LT, EXCLAM, OBRA>> \o T_cdata \o Get(v, K_cdata).s \o T_cdataEnd
                     \o (IF cd THEN Margin(I, d) ELSE <<>>) \o <<LT, SLASH>> \o tag \o <<GT>>
                ELSE IF ChildEntries(v) # <<>>
                THEN <<GT>>
                     \o Flatten([i \in 1..Len(ChildEntries(v)) |->
                                   Pretty(ChildEntries(v)[i].v, ChildEntries(v)[i].k, d + 1, I, cd)])
                     \o Margin(I, d) \o <<LT, SLASH>> \o tag \o <<GT>>
                ELSE <<SLASH, GT>>))

Indented == mode = "ind" /\ pc \notin {"doc", "rejected"}

C20_Indentation ==
    Indented => str = Pretty(src.e[1].v, src.e[1].k, 0, Asked, FALSE)

\* what the code writes: the margin stands before the closing tag of an
\* element with a CDATA payload too
C20_WithCDataMargin ==
    Indented => str = Pretty(src.e[1].v, src.e[1].k, 0, Asked, TRUE)

\* the tree of the test under a tab
C20_WitnessTest ==
    /\ Indented
    /\ src = IndentTest
    /\ opts = Str(<<9>>)
    /\ str = <<LT, 97, GT, LF, 9, LT, 98, SP, 120, EQ, DQUOTE, 51, DQUOTE, GT, 53, LT, SLASH, 98, GT,
               LF, 9, LT, 99, GT, LF, 9, 9, LT, 100, SLASH, GT, LF, 9, LT, SLASH, 99, GT,
               LF, LT, SLASH, 97, GT>>
    /\ str = Pretty(src.e[1].v, src.e[1].k, 0, <<9>>, FALSE)

\* <a>, LF, two spaces, <b><![CDATA[x]]>, LF, two spaces, </b>, LF, </a>
C20_WitnessCData ==
    /\ Indented
    /\ src = Obj(<<Entry(n_a, Obj(<<Entry(n_b, Obj(<<Entry(K_cdata, Str(T_x))>>))>>))>>)
    /\ opts = Str(<<SP, SP>>)
    /\ str = <<LT, 97, GT, LF, SP, SP, LT, 98, GT, LT, EXCLAM, OBRA>> \o T_cdata \o T_x
             \o T_cdataEnd \o <<LF, SP, SP, LT, SLASH, 98, GT, LF, LT, SLASH, 97, GT>>

(***************************************************************************)
(* C21.  In element text and in attribute values parse replaces &#N; (N    *)
(* decimal) and &#xH; (H hexadecimal) by the character whose code point is *)
(* the number given, for every number given.                               *)
(***************************************************************************)
\* the character with code point n as a string of UTF-16 code units
CodePoint(n) ==
    IF n < 65536 THEN <<n>>
    ELSE <<55296 + ((n - 65536) \div 1024), 56320 + ((n - 65536) % 1024)>>

\* the tree of the document of r when the reference stands for the string c
RefTree(r, c) ==
    IF r.place = "text" THEN Obj(<<Entry(n_a, Str(c))>>)
    ELSE Obj(<<Entry(n_a, Obj(<<Entry(K_attrs, Obj(<<Entry(n_p, Str(c))>>))>>))>>)

C21_CharRefs ==
    mode = "ref" =>
        /\ pc # "failed"
        /\ Parsed => tree = RefTree(src, CodePoint(src.n))

\* the same for the numbers below 2^16
C21_OneUnit ==
    mode = "ref" /\ src.n < 65536 => C21_CharRefs

\* &#x1F600; gives the one code unit F600
C21_Truncated ==
    /\ mode = "ref"
    /\ Parsed
    /\ src = [n |-> 128512, form |-> "HEX", place |-> "text"]
    /\ str = <<LT, 97, GT, AMP, HASH, 120, 49, 70, 54, 48, 48, SEMI, LT, SLASH, 97, GT>>
    /\ tree = Obj(<<Entry(n_a, Str(<<62976>>))>>)

\* &#65535; in an attribute
C21_WitnessUnit ==
    /\ mode = "ref"
    /\ Parsed
    /\ src = [n |-> 65535, form |-> "dec", place |-> "att"]
    /\ tree = RefTree(src, <<65535>>)

(***************************************************************************)
(* C22.  parse ends on every text, with a tree or with an error: each      *)
(* iteration of the top-level loop, of the attribute loop and of the loop  *)
(* that skips comments moves the cursor strictly forward, and the cursor   *)
(* never moves backward on a path that raises no error.                    *)
(***************************************************************************)
Increasing(h) == \A i \in 1..(Len(h) - 1) : h[i] < h[i + 1]

LastOf(h) == h[Len(h)]

\* the iteration at pos reads an opening tag
OpensTag == CharCodeAt(str, pos) = LT /\ begWord(CharCodeAt(str, pos + 1))

\* the cursor at the top of the iterations of its attribute loop
AttrLoop == Heads(str, eatWord(str, pos + 2), TRUE)

\* the attribute loop ends at ">" and the content is read
EntersContent == CharCodeAt(str, eatSpaces(str, LastOf(AttrLoop))) = GT

CommentLoop == Heads(str, eatSpaces(str, LastOf(AttrLoop)) + 1, FALSE)

Scanning == pc = "scan" /\ pos < Len(str)

\* the cursor after the iteration of the top-level loop made at pos
Reached == Iteration(str, pos, bld)

C22_Progress ==
    /\ pc = "scan" => pos <= Len(str)
    /\ Scanning /\ OpensTag =>
          /\ pos < AttrLoop[1]
          /\ Increasing(AttrLoop)
          /\ EntersContent => LastOf(AttrLoop) < CommentLoop[1] /\ Increasing(CommentLoop)
    /\ Scanning /\ Reached.err = "none" =>
          /\ Reached.pos > pos
          /\ OpensTag => Reached.pos > LastOf(AttrLoop)
          /\ OpensTag /\ EntersContent => Reached.pos >= LastOf(CommentLoop)

\* <a><!--c-->x<!--c-->x</a>: the loop that skips comments has made three
\* iterations and the parse has returned
C22_Witness ==
    /\ mode = "mix"
    /\ Parsed
    /\ src = Kids(n_a, <<>>, <<Chars(CommentX), Chars(CommentX)>>)
    /\ tree = Obj(<<Entry(n_a, Str(<<120, 120>>))>>)
    /\ pos = Len(str)

\* the attribute loop and the comment loop are about to make two iterations
C22_WitnessLoops ==
    /\ mode = "frag"
    /\ Scanning
    /\ pos = 0
    /\ OpensTag
    /\ Len(AttrLoop) = 2
    /\ EntersContent
    /\ Len(CommentLoop) = 2

\* a text that is no document ends in an error
C22_WitnessError ==
    /\ mode = "frag"
    /\ Raised
    /\ src = <<CDataX, <<LT, 97>>, <<SLASH, GT>>, <<GT>>>>

(***************************************************************************)
(* C23: parse(stringify(parse(x))) = parse(x)                              *)
(***************************************************************************)
\* a value parse took from Object.prototype stands somewhere in the tree
RECURSIVE HasInherited(_)
HasInherited(v) ==
    IF v = Fn THEN TRUE
    ELSE IF IsArr(v) THEN \E i \in 1..Len(v.a) : HasInherited(v.a[i])
    ELSE IF IsObj(v) THEN \E i \in 1..Len(v.e) : HasInherited(v.e[i].v)
    ELSE FALSE

ParsedAgain == \E m \in DOMAIN Again : mode = Again[m]

\* C23: for every text x on which parse succeeds (no reviver), the text
\* stringify gives for parse(x) is parsed without error, and to the tree
\* parse(x)
C23_ParseStringifyParse ==
    ParsedAgain =>
        /\ pc # "failed"
        /\ Parsed => tree = first

\* the same for the texts whose tree holds no member of Object.prototype
C23_OwnNames ==
    ParsedAgain /\ ~HasInherited(first) => C23_ParseStringifyParse

\* <toString/>: the text written for {toString: [f, {}]} has two top-level
\* elements and is refused
C23_Refused ==
    /\ mode = "tok again"
    /\ src = <<Empty(n_toString, <<>>)>>
    /\ first = Obj(<<Entry(n_toString, Arr(<<Fn, EmptyObj>>))>>)
    /\ str = <<LT>> \o n_toString \o <<GT>> \o FnText \o <<LT, SLASH>> \o n_toString
               \o <<GT, LT>> \o n_toString \o <<SLASH, GT>>
    /\ Raised
    /\ err = "too many elements at top level"

\* <a><constructor/></a>: the second parse returns another tree, with the
\* text of the function as one more element
C23_Differs ==
    /\ mode = "tok again"
    /\ src = <<Open(n_a), Empty(n_constructor, <<>>), Close(n_a)>>
    /\ Parsed
    /\ first = Obj(<<Entry(n_a, Obj(<<Entry(n_constructor, Arr(<<Fn, EmptyObj>>))>>))>>)
    /\ tree = Obj(<<Entry(n_a, Obj(<<Entry(n_constructor,
                                         Arr(<<Fn, Str(FnText), EmptyObj>>))>>))>>)

\* repeated tags that interleave come back grouped and parse to the same tree
C23_Witness ==
    /\ mode = "rt"
    /\ Parsed
    /\ src.kind = "kids"
    /\ Len(src.kids) = 3
    /\ src.kids[1].tag = src.kids[3].tag
    /\ src.kids[1].tag # src.kids[2].tag
    /\ out = Unset
    /\ tree = first
    /\ IsArr(Get(Get(tree, src.tag), src.kids[1].tag))

\* a comment and an attribute in single quotes: <a p='3'/><!--c-->
C23_WitnessQuotes ==
    /\ mode = "frag again"
    /\ Parsed
    /\ src = <<<<LT, 97>>, <<SP, 112, EQ, SQUOTE, 51, SQUOTE>>, <<SLASH, GT>>, CommentC>>
    /\ str = <<LT, 97, SP, 112, EQ, 34, 51, 34, SLASH, GT>>
    /\ tree = first

\* extra white space: <a> <b />\n<c\n/>\t</a> is written back as
\* <a><b/><c/></a>
C23_WitnessSpace ==
    /\ mode = "frag again"
    /\ Parsed
    /\ src = <<<<60, 97, 62, 32, 60, 98, 32, 47, 62, 10, 60, 99, 10, 47, 62, 9, 60, 47, 97, 62>>>>
    /\ str = <<60, 97, 62, 60, 98, 47, 62, 60, 99, 47, 62, 60, 47, 97, 62>>
    /\ tree = first

(***************************************************************************)
(* C24: normalizeNamespaces discards the CDATA payloads                    *)
(***************************************************************************)
\* the nodes of v, at every depth
RECURSIVE NodesOf(_)
NodesOf(v) == (IF IsObj(v) THEN {v} ELSE {}) \cup UNION {NodesOf(x) : x \in Under(v)}

OnlyAttributes(v) == IsObj(v) /\ \A x \in Range(v.e) : x.k = K_attrs

\* the ns objects a node is normalized under
NsSamples == {EmptyObj, Obj(<<Entry(<<>>, Str(u_abc))>>), Obj(<<Entry(n_x, Str(u_def))>>)}

\* C24: no node of normalizeNamespaces(tree) has a $cdata field, and a node
\* of the tree that holds $cdata normalizes, under any namespaces, to an
\* object that is empty or holds only $
C24_CDataDiscarded ==
    pc = "done" =>
        /\ \A n \in NodesOf(norm) : ~Has(n, K_cdata)
        /\ \A n \in NodesOf(tree) : Has(n, K_cdata) =>
              \A ns \in NsSamples :
                  OnlyAttributes(_normalizeNamespaces(n, ns, Str(n_a)).val)
        /\ mode = "xml" /\ src.kind = "cdata" =>
              /\ Len(norm.e) = 1
              /\ OnlyAttributes(norm.e[1].v)

\* <a><![CDATA[<x>]]></a> normalizes to {a: {}}
C24_Witness ==
    /\ Normalized
    /\ src = CData(n_a, <<>>, <<60, 120, 62>>)
    /\ tree = Obj(<<Entry(n_a, Obj(<<Entry(K_cdata, Str(<<60, 120, 62>>))>>))>>)
    /\ norm = Obj(<<Entry(n_a, EmptyObj)>>)

\* a CDATA element with an attribute keeps the attribute only
C24_WitnessAttribute ==
    /\ Normalized
    /\ src.kind = "cdata"
    /\ Has(tree.e[1].v, K_attrs)
    /\ Has(norm.e[1].v, K_attrs)
    /\ Len(norm.e[1].v.e) = 1

\* a CDATA element among the children of the root
C24_WitnessChild ==
    /\ pc = "done"
    /\ \E n \in NodesOf(tree) : Has(n, K_cdata) /\ tree.e[1].v # n

(***************************************************************************)
(* C25: several CDATA sections in one element                              *)
(***************************************************************************)
IsSection(k) == Len(k.text) >= 12 /\ SubSeq(k.text, 1, 9) = <<LT, EXCLAM, OBRA>> \o T_cdata

Payload(k) == SubSeq(k.text, 10, Len(k.text) - 3)

\* the element of the document that holds the sections, and its node
Holder == IF src.tag = n_c THEN src.kids[1] ELSE src

HolderNode == IF src.tag = n_c THEN Get(Get(tree, n_c), n_a) ELSE Get(tree, n_a)

Sections == SelectSeq(Holder.kids, IsSection)

\* C25: an element with two or more CDATA sections, with nothing or white
\* space between them, is parsed without error and its $cdata is the payload
\* of the last section
C25_LastSection ==
    mode = "cd" /\ Len(Sections) >= 2 =>
        /\ pc # "failed"
        /\ Parsed =>
              /\ IsObj(HolderNode)
              /\ Get(HolderNode, K_cdata) = Str(Payload(Sections[Len(Sections)]))
              /\ \A x \in Range(HolderNode.e) : x.k \in {K_attrs, K_cdata}

\* <a><![CDATA[x]]><![CDATA[y]]></a> is parsed to {a: {$cdata: 'y'}}
C25_Witness ==
    /\ mode = "cd"
    /\ Parsed
    /\ src = Kids(n_a, <<>>, <<Section(T_x), Section(<<121>>)>>)
    /\ tree = Obj(<<Entry(n_a, Obj(<<Entry(K_cdata, Str(<<121>>))>>))>>)

\* white space between the sections and an empty last payload, in a child
C25_WitnessSpace ==
    /\ mode = "cd"
    /\ Parsed
    /\ src = Kids(n_c, <<>>, <<Kids(n_a, <<Att(n_p, <<51>>)>>,
                                   <<Section(T_x), Chars(<<LF, 9>>), Section(<<>>)>>)>>)
    /\ Get(HolderNode, K_cdata) = Str(<<>>)

(***************************************************************************)
(* C26: what stands before the first '<' is skipped                        *)
(***************************************************************************)
Bare == parse(src.x)

\* C26: for a prefix p without '<' and a text x that starts with '<', the
\* scan of p + x starts at x, and parse(p + x) returns what parse(x)
\* returns and raises an error where parse(x) raises one
C26_PrefixSkipped ==
    mode = "pre" =>
        /\ pc = "scan" => pos >= Len(src.p)
        /\ pc \notin {"ready", "scan"} =>
              /\ Bare.err = "none" => Parsed /\ tree = Bare.val
              /\ Bare.err # "none" => Raised /\ err = Bare.err

\* "> x" before <a p="3">x</a>
C26_Witness ==
    /\ mode = "pre"
    /\ Parsed
    /\ src.p = <<GT, 120>>
    /\ src.x = Write(Text(n_a, <<Att(n_p, <<51>>)>>, <<120>>))
    /\ tree = Obj(<<Entry(n_a, Obj(<<Entry(K_attrs, Obj(<<Entry(n_p, Str(<<51>>))>>)),
                                     Entry(K_value, Str(<<120>>))>>))>>)

\* the scan has started, at the '<' behind a prefix of two characters
C26_WitnessStart ==
    /\ mode = "pre"
    /\ pc = "scan"
    /\ Len(src.p) = 2
    /\ pos = 2

\* a text that is refused is refused behind a prefix too
C26_WitnessError ==
    /\ mode = "pre"
    /\ Raised
    /\ src.p = <<LF>>
    /\ src.x = <<LT, 97, GT>>
    /\ Bare.err = "tag not closed"

=============================================================================
